---- MODULE Spec2Model ----
(***************************************************************************)
(* The RPG system builder (src/sistemas): the <stat:ID:value> dependency    *)
(* scanner, the circular-dependency detector and the schema validator; the *)
(* preview renderer with its math and dice tokens; JSON export and import; *)
(* the editor session with its stat, section, dice, replacement and enum   *)
(* operations; the pills of the markdown editor; the integrations tab; and *)
(* the converter of the legacy format.                                     *)
(*                                                                         *)
(* A JavaScript string is a sequence of one-character strings, so that the *)
(* regular expression of findStatDependencies scans real text.  An         *)
(* optional field (min?: number) is a sequence of length 0 or 1.           *)
(***************************************************************************)
EXTENDS Integers, Sequences, FiniteSets, TLC

VARIABLES
    pc,             \* "call" before the function under study ran, "done" after
    system,         \* the schema snapshot (RPGSystem): config, stats, sections
    formulaArg,     \* the formula argument of findStatDependencies / hasCircularDependency
    statIdArg,      \* the target id argument of hasCircularDependency
    dependencies,   \* the array findStatDependencies returned
    cyclic,         \* the boolean hasCircularDependency returned
    errors,         \* the error list validate returned
    threw,          \* TRUE when validate ended with a TypeError instead of returning
    valueArg,       \* the value argument of SmartPreview: the text to render
    processedValue, \* the text SmartPreview hands to the markdown renderer
    evaluated,      \* the strings handed to the arithmetic evaluator, in call order
    rolled,         \* the strings handed to the dice roller, in call order
    random,         \* what the roller's random source yields: 0 lowest face, 1 highest
    exported,       \* the JSON texts of the files exportJson wrote, in the order written
    toast,          \* the message of the last toast shown, "" before the first
    edits,          \* editor operations performed since the editor opened
    selectedTab,    \* the state selectedTab of RPGSystemBuilder, "" outside an editor session
    opened,         \* per card of StatsTab: the card is open; <<>> while the tab is not mounted
    showLimits,     \* per card of StatsTab: <<the state showLimits>> of the StatNumericEditor
                    \* mounted in it, <<>> when none is mounted
    expandedOptions, \* per card of StatsTab: <<the state expandedOptions>> of the
                    \* StatEnumEditor mounted in it, <<>> when none is mounted
    diceEditor,     \* per card of StatsTab: <<the states showDiceEditor and
                    \* editingDiceIndex>> of the DiceEditor mounted in it, <<>> when
                    \* none is mounted
    isOpen,         \* per SectionEditor of SectionsTab: its state isOpen
    newFieldKey,    \* the state newFieldKey of IntegrationsTab, 0 while it is not mounted
    reading,        \* the texts of the files whose FileReader has not fired onload yet
    copying,        \* the texts copyJson handed to the clipboard and awaits
    clipboard,      \* the clipboard: <<>> before a text was written to it, else <<the text>>
    oldJson,        \* the file ./oldJson.json the converter reads
    oldData,        \* the argument of convertToNewFormat
    newData,        \* what convertToNewFormat returned, <<>> when it did not return
    newFormat,      \* the file ./newFormat.json: <<>> absent, else <<its content>>
    exitCode,       \* the exit status of the converter's process, <<>> while it runs
    parts,          \* the array renderTextWithPills returned
    depth           \* the deepest nesting of checkRecursive calls in hasCircularDependency

\* the variables of the preview
previewVars == <<valueArg, processedValue, evaluated, rolled, random>>

\* the variables of an editor session
editorVars == <<exported, toast, edits, selectedTab, opened, showLimits, expandedOptions,
                diceEditor, isOpen, newFieldKey, reading, copying, clipboard>>

\* the variables of the legacy converter
converterVars == <<oldJson, oldData, newData, newFormat, exitCode>>

\* the variables of the programs beside the editor
\* the variable of the pills of the markdown editor
scannerVars == <<parts>>

partVars == <<converterVars, scannerVars, depth>>

vars == <<pc, system, formulaArg, statIdArg, dependencies, cyclic, errors, threw,
          valueArg, processedValue, evaluated, rolled, random, exported, toast, edits,
          selectedTab, opened, showLimits, expandedOptions, diceEditor, isOpen, newFieldKey,
          reading,
          copying, clipboard,
          oldJson, oldData, newData, newFormat, exitCode, parts, depth>>

----------------------------------------------------------------------------
(* Bounds of the model *)

\* pieces concatenated into a formula text given to findStatDependencies
MaxPieces == 3

\* stats of a stat list; the ids that stats carry and formulas reference are
\* 1..MaxStats
MaxStats == 3

\* sections of a section list
MaxSections == 2

----------------------------------------------------------------------------
(* Text *)

Digit == {"0", "1", "2", "3", "4", "5", "6", "7", "8", "9"}

\* the decimal digit of a one-digit number
ToDigit(n) ==
    CASE n = 0 -> "0" [] n = 1 -> "1" [] n = 2 -> "2" [] n = 3 -> "3"
      [] n = 4 -> "4" [] n = 5 -> "5" [] n = 6 -> "6" [] n = 7 -> "7"
      [] n = 8 -> "8" [] n = 9 -> "9"

DigitValue(c) ==
    CASE c = "0" -> 0 [] c = "1" -> 1 [] c = "2" -> 2 [] c = "3" -> 3
      [] c = "4" -> 4 [] c = "5" -> 5 [] c = "6" -> 6 [] c = "7" -> 7
      [] c = "8" -> 8 [] c = "9" -> 9

\* the literal parts of the regular expression /<stat:(\d+):value>/g
StatOpen == <<"<", "s", "t", "a", "t", ":">>
ValueClose == <<":", "v", "a", "l", "u", "e", ">">>

\* text has the characters of lit at (1-based) position i
HasAt(text, i, lit) ==
    /\ i >= 1
    /\ i + Len(lit) - 1 <= Len(text)
    /\ \A k \in 1..Len(lit) : text[i + k - 1] = lit[k]

\* the least position of a set of positions
Least(positions) == CHOOSE k \in positions : \A j \in positions : k <= j

\* \d+ is greedy: the position after the longest run of digits that starts at i
DigitRunEnd(text, i) ==
    IF i > Len(text) THEN i
    ELSE IF \A k \in i..Len(text) : text[k] \in Digit THEN Len(text) + 1
    ELSE CHOOSE k \in i..Len(text) :
            text[k] \notin Digit /\ \A j \in i..(k - 1) : text[j] \in Digit

\* parseInt(match[1]) of a run of decimal digits
RECURSIVE parseIntFrom(_, _)
parseIntFrom(digits, acc) ==
    IF digits = <<>> THEN acc
    ELSE parseIntFrom(Tail(digits), 10 * acc + DigitValue(Head(digits)))

parseInt(digits) == parseIntFrom(digits, 0)

\* the regular expression matches at position i; the digit run is followed by
\* ":", which is no digit, so only the longest run can be the group
MatchesAt(text, i) ==
    /\ HasAt(text, i, StatOpen)
    /\ LET e == DigitRunEnd(text, i + Len(StatOpen))
       IN /\ e > i + Len(StatOpen)
          /\ HasAt(text, e, ValueClose)

\* regex.exec(formula) with regex.lastIndex = lastIndex (0-based): the leftmost
\* match at or after lastIndex, as [found, id digits, new lastIndex]
regexExec(text, lastIndex) ==
    LET matches == {i \in (lastIndex + 1)..Len(text) : MatchesAt(text, i)}
    IN IF matches = {} THEN [found |-> FALSE, group |-> <<>>, lastIndex |-> 0]
       ELSE LET s == Least(matches) + Len(StatOpen)
                e == DigitRunEnd(text, s)
            IN [found |-> TRUE,
                group |-> SubSeq(text, s, e - 1),
                lastIndex |-> e + Len(ValueClose) - 1]

Includes(seq, x) == \E k \in 1..Len(seq) : seq[k] = x

\* if (!dependencies.includes(statId)) dependencies.push(statId)
PushNewDependencyAlways(deps, statId) == Append(deps, statId)

PushNewDependency(deps, statId) ==
    IF ~Includes(deps, statId) THEN Append(deps, statId) ELSE deps

\* the while loop of findStatDependencies
RECURSIVE findStatDependenciesLoop(_, _, _)
findStatDependenciesLoop(text, lastIndex, deps) ==
    LET match == regexExec(text, lastIndex)
    IN IF ~match.found THEN deps
       ELSE findStatDependenciesLoop(text, match.lastIndex,
                PushNewDependency(deps, parseInt(match.group)))

findStatDependencies(text) == findStatDependenciesLoop(text, 0, <<>>)

----------------------------------------------------------------------------
(* Stats.  Every stat is a record of the same shape; a field its type does  *)
(* not have holds the empty value.  name is name?.default, "" when the name *)
(* or its default is missing or empty.  dices and replacements are <<>>     *)
(* when the stat has no such member and <<list>> when it has one, the empty *)
(* list included.  A stat is built without emoji, dices and replacements; a *)
(* stat that has them is the record EXCEPT those fields.                    *)

Stat(id, type, name, min, max, options, text) ==
    [id |-> id, type |-> type, name |-> name, emoji |-> "", min |-> min, max |-> max,
     options |-> options, formula |-> text, dices |-> <<>>, replacements |-> <<>>]

\* options: StatsEnumOption[] | number, or no options member
InlineOptions(items) == [isArray |-> TRUE, isNumber |-> FALSE, items |-> items, ref |-> 0]
ReferenceOptions(id) == [isArray |-> FALSE, isNumber |-> TRUE, items |-> <<>>, ref |-> id]
NoOptions == [isArray |-> FALSE, isNumber |-> FALSE, items |-> <<>>, ref |-> 0]

\* value ?? []
orEmpty(value) == IF value = <<>> THEN <<>> ELSE value[1]

NumericStat(id, name, min, max) == Stat(id, "numeric", name, min, max, NoOptions, <<>>)
EnumStat(id, name, options) == Stat(id, "enum", name, <<>>, <<>>, options, <<>>)
BooleanStat(id, name) == Stat(id, "boolean", name, <<>>, <<>>, NoOptions, <<>>)
StringStat(id, name) == Stat(id, "string", name, <<>>, <<>>, NoOptions, <<>>)
CalculatedStat(id, name, text) ==
    Stat(id, "calculated", name, <<>>, <<>>, NoOptions, text)

\* allStats.find(s => s.id === depId): the index of the first stat with that
\* id, 0 when find returns undefined
statFind(allStats, id) ==
    LET found == {k \in 1..Len(allStats) : allStats[k].id = id}
    IN IF found = {} THEN 0 ELSE CHOOSE k \in found : \A j \in found : k <= j

----------------------------------------------------------------------------
(* hasCircularDependency: a depth-first walk with one mutable set, visited, *)
(* threaded through the calls; each call returns [result, visited] and the  *)
(* deepest nesting of checkRecursive calls it reached.  A call nested       *)
(* deeper than the call stack holds ends the walk with a RangeError.        *)

\* calls of checkRecursive the call stack holds
StackLimit == 8

\* if (depId === currentStatId) return true
IsDirectReferenceNever(depId, currentStatId) == FALSE

IsDirectReference(depId, currentStatId) == depId = currentStatId

\* if (depStat && depStat.type === 'calculated'): the dependency is expanded
IsExpandedNever(allStats, depId) == FALSE

IsExpanded(allStats, depId) ==
    LET k == statFind(allStats, depId)
    IN k # 0 /\ allStats[k].type = "calculated"

\* visited.delete(statId) before return false
VisitedDeleteForgotten(visited, statId) == visited

VisitedDelete(visited, statId) == visited \ {statId}

\* visited.add(statId)
VisitedAddForgotten(visited, statId) == visited

VisitedAdd(visited, statId) == visited \cup {statId}

\* the larger of two numbers
Max(a, b) == IF a >= b THEN a ELSE b

RECURSIVE checkRecursive(_, _, _, _, _, _)
RECURSIVE checkDependencies(_, _, _, _, _, _, _)

\* the for loop over dependencies, from the n-th dependency on, in the call
\* of checkRecursive nested at level
checkDependencies(deps, n, statId, currentStatId, allStats, visited, level) ==
    IF n > Len(deps)
    THEN [result |-> FALSE, visited |-> VisitedDelete(visited, statId),
          depth |-> level, overflow |-> FALSE]
    ELSE LET depId == deps[n]
         IN IF IsDirectReference(depId, currentStatId)
            THEN [result |-> TRUE, visited |-> visited,
                  depth |-> level, overflow |-> FALSE]
            ELSE IF IsExpanded(allStats, depId)
                 THEN LET sub == checkRecursive(depId,
                                     allStats[statFind(allStats, depId)].formula,
                                     currentStatId, allStats, visited, level + 1)
                      IN IF sub.result \/ sub.overflow THEN sub
                         ELSE LET rest == checkDependencies(deps, n + 1, statId,
                                              currentStatId, allStats, sub.visited, level)
                              IN [rest EXCEPT !.depth = Max(sub.depth, rest.depth)]
                 ELSE checkDependencies(deps, n + 1, statId, currentStatId,
                                        allStats, visited, level)

checkRecursive(statId, currentFormula, currentStatId, allStats, visited, level) ==
    IF level > StackLimit
    THEN [result |-> FALSE, visited |-> visited, depth |-> level, overflow |-> TRUE]
    ELSE IF statId \in visited
    THEN [result |-> TRUE, visited |-> visited, depth |-> level, overflow |-> FALSE]
    ELSE checkDependencies(findStatDependencies(currentFormula), 1, statId,
                           currentStatId, allStats, VisitedAdd(visited, statId), level)

\* return checkRecursive(currentStatId, formula)
walk(statId, text, allStats) == checkRecursive(statId, text, statId, allStats, {}, 1)

hasCircularDependency(statId, text, allStats) == walk(statId, text, allStats).result

----------------------------------------------------------------------------
(* validate.  An error message is the record of its template and of the     *)
(* values the template interpolates: idx and j are the 0-based indices of   *)
(* "stats[idx]", "sections[idx]" and "options[j]", value the number after   *)
(* the colon; -1 where the message has no such part.                        *)

Section(id, name, previewType) ==
    [id |-> id, name |-> name, emoji |-> "", previewType |-> previewType]

\* system.integrations: { schemas }, and a schema of it.  The fields of a
\* schema, an object with numeric keys, are a function from the keys to the
\* fields.
Integrations(schemas) == [schemas |-> schemas]
NexusSchema(id, fields) == [id |-> id, fields |-> fields]
SchemaEval(name) == [name |-> name, type |-> "eval", options |-> <<>>]
SchemaOption(value, label) == [value |-> value, label |-> label]

\* a JSON value in the place of stats or sections: an array, or no array
\* (kind "undefined" for a missing field, "object" for {...})
ArrayValue(items) == [kind |-> "array", items |-> items]
NotArrayValue(kind) == [kind |-> kind, items |-> <<>>]

Error(kind, idx, j, value) == [kind |-> kind, idx |-> idx, j |-> j, value |-> value]

\* errs.push(...)
PushErrorIfFirst(errs, e) == IF errs = <<>> THEN <<e>> ELSE errs

PushError(errs, e) == Append(errs, e)

\* options.length > 25
OptionLimit == 25

ExceedsOptionLimitFrom(n) == n >= OptionLimit

ExceedsOptionLimit(n) == n > OptionLimit

\* typeof n.min === "number" && typeof n.max === "number" && n.min > n.max
MinAboveOrAtMax(min, max) == Len(min) = 1 /\ Len(max) = 1 /\ min[1] >= max[1]

MinAboveMax(min, max) == Len(min) = 1 /\ Len(max) = 1 /\ min[1] > max[1]

\* ids.add(s.id), secIds.add(sec.id), seen.add(o.value)
SetAddForgotten(set, x) == set

SetAdd(set, x) == set \cup {x}

\* the callback of e.options.forEach((o, j) => ...) on the option at position
\* loop.p; loop holds the position, the set seen and the array errs
validateOption(options, idx, loop) ==
    LET o == options[loop.p]
        errs1 == IF o.value \in loop.seen
                 THEN PushError(loop.errs,
                          Error("stats.options.value duplicado", idx, loop.p - 1, o.value))
                 ELSE loop.errs
        errs2 == IF o.name = ""
                 THEN PushError(errs1,
                          Error("stats.options.name.default obrigatorio", idx,
                                loop.p - 1, -1))
                 ELSE errs1
    IN [p |-> loop.p + 1, seen |-> SetAdd(loop.seen, o.value), errs |-> errs2]

\* e.options.forEach, from the option at position loop.p
RECURSIVE validateOptions(_, _, _)
validateOptions(options, idx, loop) ==
    IF loop.p > Len(options) THEN loop.errs
    ELSE validateOptions(options, idx, validateOption(options, idx, loop))

\* the body of dependencies.forEach(depId => ...)
validateDependencyIgnoringType(allStats, depId, idx, errs) ==
    IF statFind(allStats, depId) = 0
    THEN PushError(errs, Error("stats.formula referencia stat inexistente", idx, -1, depId))
    ELSE errs

validateDependency(allStats, depId, idx, errs) ==
    LET k == statFind(allStats, depId)
    IN IF k = 0
       THEN PushError(errs,
                Error("stats.formula referencia stat inexistente", idx, -1, depId))
       ELSE IF allStats[k].type = "string"
            THEN PushError(errs,
                     Error("stats.formula referencia stat do tipo string", idx, -1, depId))
            ELSE errs

RECURSIVE validateDependencies(_, _, _, _, _)
validateDependencies(allStats, deps, n, idx, errs) ==
    IF n > Len(deps) THEN errs
    ELSE validateDependencies(allStats, deps, n + 1, idx,
             validateDependency(allStats, deps[n], idx, errs))

\* the body of system.stats.forEach((s, idx) => ...): the errors after stat s
validateStat(allStats, s, idx, ids, errs) ==
    LET errs1 == IF s.id \in ids
                 THEN PushError(errs, Error("stats id duplicado", idx, -1, s.id))
                 ELSE errs
        errs2 == IF s.name = ""
                 THEN PushError(errs1, Error("stats.name.default obrigatorio", idx, -1, -1))
                 ELSE errs1
        errs3 == IF s.type = "numeric" /\ MinAboveMax(s.min, s.max)
                 THEN PushError(errs2, Error("stats min > max", idx, -1, -1))
                 ELSE errs2
        errs4 == IF s.type = "enum" /\ s.options.isArray
                 THEN LET limit == IF ExceedsOptionLimit(Len(s.options.items))
                                   THEN PushError(errs3,
                                            Error("stats excede o limite de 25 opcoes",
                                                  idx, -1, Len(s.options.items)))
                                   ELSE errs3
                      IN validateOptions(s.options.items, idx,
                                         [p |-> 1, seen |-> {}, errs |-> limit])
                 ELSE errs3
        errs5 == IF s.type = "calculated" /\ s.formula = <<>>
                 THEN PushError(errs4, Error("stats.formula obrigatorio", idx, -1, -1))
                 ELSE errs4
        errs6 == IF /\ s.type = "calculated"
                    /\ s.formula # <<>>
                    /\ hasCircularDependency(s.id, s.formula, allStats)
                 THEN PushError(errs5,
                          Error("stats tem dependencia circular na formula", idx, -1, -1))
                 ELSE errs5
    IN IF s.type = "calculated"
       THEN validateDependencies(allStats, findStatDependencies(s.formula), 1, idx, errs6)
       ELSE errs6

\* system.stats.forEach, from the stat at position p
RECURSIVE validateStats(_, _, _, _)
validateStats(allStats, p, ids, errs) ==
    IF p > Len(allStats) THEN errs
    ELSE validateStats(allStats, p + 1, SetAdd(ids, allStats[p].id),
             validateStat(allStats, allStats[p], p - 1, ids, errs))

\* the body of system.sections.forEach((sec, i) => ...)
validateSection(sec, i, secIds, errs) ==
    LET errs1 == IF sec.id \in secIds
                 THEN PushError(errs, Error("sections id duplicado", i, -1, sec.id))
                 ELSE errs
        errs2 == IF sec.name = ""
                 THEN PushError(errs1, Error("sections.name.default obrigatorio", i, -1, -1))
                 ELSE errs1
    IN IF sec.previewType = ""
       THEN PushError(errs2, Error("sections.preview.type obrigatorio", i, -1, -1))
       ELSE errs2

RECURSIVE validateSections(_, _, _, _)
validateSections(sections, p, secIds, errs) ==
    IF p > Len(sections) THEN errs
    ELSE validateSections(sections, p + 1, SetAdd(secIds, sections[p].id),
             validateSection(sections[p], p - 1, secIds, errs))

\* the four checks before the loops
validateHead(sys) ==
    LET errs1 == IF sys.config.id \in {<<>>, <<0>>} /\ sys.config.id # <<0>>
                 THEN PushError(<<>>, Error("config.id obrigatorio", -1, -1, -1))
                 ELSE <<>>
        errs2 == IF sys.config.name = ""
                 THEN PushError(errs1, Error("config.name.default obrigatorio", -1, -1, -1))
                 ELSE errs1
        errs3 == IF sys.stats.kind # "array"
                 THEN PushError(errs2, Error("stats deve ser um array", -1, -1, -1))
                 ELSE errs2
    IN IF sys.sections.kind # "array"
       THEN PushError(errs3, Error("sections deve ser um array", -1, -1, -1))
       ELSE errs3

\* validate(system): [threw, errs].  forEach of a value that is no array is a
\* TypeError, which ends the call without a result.
validate(sys) ==
    IF sys.stats.kind # "array" THEN [threw |-> TRUE, errs |-> <<>>]
    ELSE LET afterStats == validateStats(sys.stats.items, 1, {}, validateHead(sys))
         IN IF sys.sections.kind # "array" THEN [threw |-> TRUE, errs |-> <<>>]
            ELSE [threw |-> FALSE,
                  errs |-> validateSections(sys.sections.items, 1, {}, afterStats)]

----------------------------------------------------------------------------
(* Formula texts given to findStatDependencies *)

StatToken(digits, property) == StatOpen \o digits \o <<":">> \o property \o <<">">>

SectionToken(digits, property) ==
    <<"<", "s", "e", "c", "t", "i", "o", "n", ":">> \o digits \o <<":">>
        \o property \o <<">">>

ValueProp == <<"v", "a", "l", "u", "e">>
NameProp == <<"n", "a", "m", "e">>
EmojiProp == <<"e", "m", "o", "j", "i">>

\* whole tokens, literal text and token fragments that may fuse into a token
Pieces ==
    { StatToken(<<"1">>, ValueProp), StatToken(<<"2">>, ValueProp),
      StatToken(<<"0", "1">>, ValueProp),
      StatToken(<<"1">>, NameProp), StatToken(<<"2">>, EmojiProp),
      SectionToken(<<"1">>, NameProp),
      <<" ", "+", " ">>,
      StatOpen, <<"2">>, ValueClose }

RECURSIVE Texts(_)
Texts(n) ==
    IF n = 0 THEN {<<>>}
    ELSE LET shorter == Texts(n - 1)
         IN shorter \cup {t \o p : t \in shorter, p \in Pieces}

----------------------------------------------------------------------------
(* Values of the variables a specification does not use *)

NoPreview ==
    /\ valueArg = <<>>
    /\ processedValue = <<>>
    /\ evaluated = <<>>
    /\ rolled = <<>>
    /\ random = 0

NoEditor ==
    /\ exported = <<>>
    /\ toast = ""
    /\ edits = 0
    /\ selectedTab = ""
    /\ opened = <<>>
    /\ showLimits = <<>>
    /\ expandedOptions = <<>>
    /\ diceEditor = <<>>
    /\ isOpen = <<>>
    /\ newFieldKey = 0
    /\ reading = <<>>
    /\ copying = <<>>
    /\ clipboard = <<>>

NoConverter ==
    /\ oldJson = <<>>
    /\ oldData = <<>>
    /\ newData = <<>>
    /\ newFormat = <<>>
    /\ exitCode = <<>>

NoScanner == parts = <<>>

NoDepth == depth = 0

NoParts == NoConverter /\ NoScanner /\ NoDepth

NoSystem ==
    [config |-> [id |-> <<>>, name |-> ""],
     stats |-> ArrayValue(<<>>),
     sections |-> ArrayValue(<<>>),
     integrations |-> <<>>]

----------------------------------------------------------------------------
(* findStatDependencies applied to every formula text of the bound *)

InitDeps ==
    /\ pc = "call"
    /\ formulaArg \in Texts(MaxPieces)
    /\ dependencies = <<>>
    /\ system = NoSystem
    /\ statIdArg = 0
    /\ cyclic = FALSE
    /\ errors = <<>>
    /\ threw = FALSE
    /\ NoPreview
    /\ NoEditor
    /\ NoParts

CallFindStatDependencies ==
    /\ pc = "call"
    /\ dependencies' = findStatDependencies(formulaArg)
    /\ pc' = "done"
    /\ UNCHANGED <<system, formulaArg, statIdArg, cyclic, errors, threw, previewVars, editorVars, partVars>>

NextDeps == CallFindStatDependencies

SpecDeps == InitDeps /\ [][NextDeps]_vars

\* positions at which a <stat:DIGITS:value> token starts, and the token's id
TokenEndsAt(text, i, k) ==
    /\ HasAt(text, i, StatOpen)
    /\ k >= i + Len(StatOpen)
    /\ k <= Len(text)
    /\ \A j \in (i + Len(StatOpen))..k : text[j] \in Digit
    /\ HasAt(text, k + 1, ValueClose)

ValueTokenStarts(text) ==
    {i \in 1..Len(text) :
        /\ HasAt(text, i, StatOpen)
        /\ \E k \in i..Len(text) : TokenEndsAt(text, i, k)}

\* the number a run of decimal digits denotes
RECURSIVE DecimalValue(_)
DecimalValue(digits) ==
    IF digits = <<>> THEN 0
    ELSE 10 * DecimalValue(SubSeq(digits, 1, Len(digits) - 1))
            + DigitValue(digits[Len(digits)])

ValueTokenId(text, i) ==
    LET k == CHOOSE k \in i..Len(text) : TokenEndsAt(text, i, k)
    IN DecimalValue(SubSeq(text, i + Len(StatOpen), k))

ValueTokenIds(text) == {ValueTokenId(text, i) : i \in ValueTokenStarts(text)}

FirstOccurrence(text, id) ==
    CHOOSE i \in ValueTokenStarts(text) :
        /\ ValueTokenId(text, i) = id
        /\ \A j \in ValueTokenStarts(text) : ValueTokenId(text, j) = id => i <= j

\* C4: findStatDependencies returns exactly the ids of the <stat:ID:value>
\* tokens of the formula, each id once, in the order of their first
\* occurrence; name and emoji tokens, section tokens and other text add nothing.
C4_DependenciesAreTheValueTokenIds ==
    pc = "done" =>
        /\ {dependencies[k] : k \in 1..Len(dependencies)} = ValueTokenIds(formulaArg)
        /\ \A p, q \in 1..Len(dependencies) :
              p < q =>
                /\ dependencies[p] # dependencies[q]
                /\ FirstOccurrence(formulaArg, dependencies[p])
                     < FirstOccurrence(formulaArg, dependencies[q])

\* a formula with a repeated id, a second id, a name token and a section token
C4_Witness ==
    /\ pc = "done"
    /\ Len(dependencies) = 2
    /\ Cardinality(ValueTokenStarts(formulaArg)) = 3

----------------------------------------------------------------------------
(* hasCircularDependency applied to every target, proposed formula and stat *)
(* list of the bound                                                        *)

StatIds == 1..MaxStats

\* "<stat:a:value>", "<stat:a:value> + <stat:b:value>", ...
RECURSIVE ReferenceFormula(_)
ReferenceFormula(ids) ==
    IF ids = <<>> THEN <<>>
    ELSE IF Len(ids) = 1 THEN StatToken(<<ToDigit(ids[1])>>, ValueProp)
    ELSE StatToken(<<ToDigit(ids[1])>>, ValueProp) \o <<" ", "+", " ">>
            \o ReferenceFormula(Tail(ids))

\* formulas that reference no stat, one stat or two different stats
ReferenceFormulas ==
    {ReferenceFormula(<<>>)}
        \cup {ReferenceFormula(<<a>>) : a \in StatIds}
        \cup UNION {{ReferenceFormula(<<a, b>>) : b \in {c \in StatIds : c > a}}
                        : a \in StatIds}

CycleStats ==
    {NumericStat(0, "N", <<0>>, <<10>>)}
        \cup {CalculatedStat(0, "C", f) : f \in ReferenceFormulas}

\* numeric stats and calculated stats with one reference
SingleReferenceStats ==
    {NumericStat(0, "N", <<0>>, <<10>>)}
        \cup {CalculatedStat(0, "C", ReferenceFormula(<<a>>)) : a \in StatIds}

WithIds(body, layout) == [k \in DOMAIN body |-> [body[k] EXCEPT !.id = layout[k]]]

\* The k-th stat has id k.  The target is a calculated stat of the list whose
\* stored formula is still empty (confirmFormula on a new stat) or is the
\* proposed formula itself (validate's call).
InitCycleDistinctIds ==
    \E body \in [StatIds -> CycleStats] :
        /\ body[statIdArg] \in {CalculatedStat(0, "C", <<>>),
                                 CalculatedStat(0, "C", formulaArg)}
        /\ system = [NoSystem EXCEPT
                        !.stats.items = WithIds(body, [k \in StatIds |-> k])]

\* The first two stats share id 1 (an imported document), so that no stat has
\* id 2 and the second stat is never found.
InitCycleDuplicateId ==
    \E body \in [StatIds -> SingleReferenceStats] :
        system = [NoSystem EXCEPT
                    !.stats.items =
                        WithIds(body, [k \in StatIds |-> IF k = 2 THEN 1 ELSE k])]

InitCycle ==
    /\ pc = "call"
    /\ statIdArg \in StatIds
    /\ formulaArg \in ReferenceFormulas
    /\ InitCycleDistinctIds \/ InitCycleDuplicateId
    /\ dependencies = <<>>
    /\ cyclic = FALSE
    /\ errors = <<>>
    /\ threw = FALSE
    /\ NoPreview
    /\ NoEditor
    /\ NoParts

CallHasCircularDependency ==
    /\ pc = "call"
    /\ \E returned \in {walk(statIdArg, formulaArg, system.stats.items)} :
          /\ cyclic' = returned.result
          /\ depth' = returned.depth
          /\ threw' = returned.overflow
    /\ pc' = "done"
    /\ UNCHANGED <<system, formulaArg, statIdArg, dependencies, errors, previewVars,
                   editorVars, converterVars, scannerVars>>

\* the distinct ids of the stat list
DistinctStatIds == {system.stats.items[k].id : k \in 1..Len(system.stats.items)}

\* C26: hasCircularDependency returns (the walk does not exhaust the call
\* stack) for every stat list and formula, with cycles that do not pass
\* through the target and with duplicate ids, and the calls of checkRecursive
\* are never nested deeper than the number of distinct stat ids plus one,
\* where the target counts as one of the ids.
C26_DepthWithinDistinctIdsPlusOne ==
    pc = "done" =>
        /\ ~threw
        /\ depth >= 1
        /\ depth <= Cardinality(DistinctStatIds \cup {statIdArg}) + 1
        /\ statIdArg \in DistinctStatIds => depth <= Cardinality(DistinctStatIds) + 1

\* the target is carried by a stat, every stat is on the path when a stat of
\* a cycle that does not pass through the target is met again: the nesting is
\* the number of distinct ids plus one
C26_Witness ==
    /\ pc = "done"
    /\ cyclic
    /\ statIdArg \in DistinctStatIds
    /\ Cardinality(DistinctStatIds) = MaxStats
    /\ depth = MaxStats + 1

NextCycle == CallHasCircularDependency

SpecCycle == InitCycle /\ [][NextCycle]_vars

\* The dependency graph of a call hasCircularDependency(target, proposed,
\* allStats), as the set of ids each id refers to: an id stands for the first
\* stat of allStats that carries it; the target's edges are the value tokens of
\* the proposed formula, another id's edges are those of its formula when it
\* is a calculated stat.
GraphNodes(target, allStats) ==
    {target} \cup {allStats[k].id : k \in 1..Len(allStats)}

DependencyGraph(target, proposed, allStats) ==
    [a \in GraphNodes(target, allStats) |->
        IF a = target THEN ValueTokenIds(proposed)
        ELSE LET k == CHOOSE k \in 1..Len(allStats) :
                        /\ allStats[k].id = a
                        /\ \A j \in 1..(k - 1) : allStats[j].id # a
             IN IF allStats[k].type = "calculated"
                THEN ValueTokenIds(allStats[k].formula)
                ELSE {}]

RECURSIVE GraphReachFrom(_, _, _)
GraphReachFrom(graph, frontier, reached) ==
    LET next == {b \in DOMAIN graph \ reached : \E a \in frontier : b \in graph[a]}
    IN IF next = {} THEN reached
       ELSE GraphReachFrom(graph, next, reached \cup next)

\* the ids reached from a by a path of at least one edge
ReachedFrom(graph, a) == GraphReachFrom(graph, {a}, {})

OnCycle(graph, a) == a \in ReachedFrom(graph, a)

CycleReachableFrom(graph, a) ==
    \E n \in {a} \cup ReachedFrom(graph, a) : OnCycle(graph, n)

\* the graph of the call under study
CallGraph == DependencyGraph(statIdArg, formulaArg, system.stats.items)

\* C1 as stated: hasCircularDependency returns true iff the graph has a path
\* from the target back to the target.
C1_TrueIffPathBackToTarget ==
    pc = "done" => (cyclic <=> OnCycle(CallGraph, statIdArg))

\* C1 as amended: hasCircularDependency returns true iff some cycle of the
\* graph can be reached from the target, whether or not the target is on it.
C1_TrueIffCycleReachable ==
    pc = "done" => (cyclic <=> CycleReachableFrom(CallGraph, statIdArg))

\* the target depends on a cycle it is not part of, and the call returned true
C1_Witness ==
    /\ pc = "done"
    /\ cyclic
    /\ ~OnCycle(CallGraph, statIdArg)
    /\ CycleReachableFrom(CallGraph, statIdArg)

\* C2: when the proposed formula references the target, or a calculated stat
\* whose formulas lead back to the target, hasCircularDependency returns true.
C2_CycleThroughTargetDetected ==
    (pc = "done" /\ OnCycle(CallGraph, statIdArg)) => cyclic

\* an indirect cycle: the proposed formula does not name the target itself
C2_Witness ==
    /\ pc = "done"
    /\ cyclic
    /\ OnCycle(CallGraph, statIdArg)
    /\ statIdArg \notin ValueTokenIds(formulaArg)

\* C3: when no cycle can be reached from the target, hasCircularDependency
\* returns false, also when a stat is reached through two branches.
C3_NoCycleNoReport ==
    (pc = "done" /\ ~CycleReachableFrom(CallGraph, statIdArg)) => ~cyclic

\* the calculated stat c is reached through two branches, once below the
\* target's dependency a and once as, or below, its dependency b: c is
\* expanded twice, and the call returned false
C3_Witness ==
    /\ pc = "done"
    /\ ~cyclic
    /\ \E a, b, c \in StatIds :
          /\ a # b
          /\ c # a
          /\ statIdArg \notin {a, b, c}
          /\ {a, b} \subseteq CallGraph[statIdArg]
          /\ c \in CallGraph[a]
          /\ c = b \/ c \in CallGraph[b]
          /\ IsExpanded(system.stats.items, c)

----------------------------------------------------------------------------
(* validate applied to schema snapshots *)

\* the schema the editor starts with
DefaultConfig == [id |-> <<1>>, name |-> "Meu Sistema"]

DefaultStats ==
    << NumericStat(1, "Forca", <<0>>, <<10>>),
       BooleanStat(2, "Treinado em Furtividade"),
       EnumStat(3, "Classe", InlineOptions(<<>>)) >>

DefaultSections ==
    << Section(1, "Resumo", "string"), Section(2, "Atributos", "string") >>

Option(value, name) == [value |-> value, name |-> name, emoji |-> ""]

\* n options with the values 1..n
DistinctOptions(n) == [j \in 1..n |-> Option(j, "O")]

OptionLists ==
    { <<>>,
      <<Option(1, "A"), Option(1, "B")>>,
      <<Option(1, "A"), Option(2, "")>>,
      <<Option(2, "A"), Option(1, ""), Option(2, "B"), Option(2, "C")>>,
      DistinctOptions(OptionLimit),
      DistinctOptions(OptionLimit + 1),
      [DistinctOptions(OptionLimit + 1) EXCEPT ![OptionLimit + 1] = Option(1, "")] }

\* stats of every type, without and with each fault validate looks for
StatBodies ==
    { NumericStat(0, "N", <<0>>, <<10>>), NumericStat(0, "N", <<5>>, <<5>>),
      NumericStat(0, "", <<10>>, <<5>>), NumericStat(0, "N", <<10>>, <<>>),
      NumericStat(0, "N", <<>>, <<5>>),
      BooleanStat(0, "B"), BooleanStat(0, ""), StringStat(0, "S"),
      EnumStat(0, "E", ReferenceOptions(1)) }
        \cup {EnumStat(0, "E", InlineOptions(items)) : items \in OptionLists}
        \cup {CalculatedStat(0, "C", f) : f \in ReferenceFormulas}

\* the stats beside the one under study
PlainStatBodies ==
    { NumericStat(0, "N", <<0>>, <<10>>), StringStat(0, "S"),
      CalculatedStat(0, "C", ReferenceFormula(<<1>>)),
      CalculatedStat(0, "C", ReferenceFormula(<<2>>)) }

\* ids of a list of n stats: 1..n, or the first two stats share id 1, or all
\* stats carry id 1
StatIdLayouts(n) ==
    { [k \in 1..n |-> k], [k \in 1..n |-> IF k = 2 THEN 1 ELSE k], [k \in 1..n |-> 1] }

SectionBodies ==
    {Section(id, name, previewType) :
        id \in {1, 2}, name \in {"S", ""}, previewType \in {"string", ""}}

RECURSIVE SectionLists(_)
SectionLists(n) ==
    IF n = 0 THEN {<<>>}
    ELSE LET shorter == SectionLists(n - 1)
         IN shorter \cup {Append(l, sec) : l \in {x \in shorter : Len(x) = n - 1},
                                           sec \in SectionBodies}

NoConfig == [id |-> <<>>, name |-> ""]

Configs ==
    { DefaultConfig, [id |-> <<0>>, name |-> "Meu Sistema"],
      [id |-> <<>>, name |-> "Meu Sistema"], NoConfig }

FaultySections == << Section(1, "", ""), Section(1, "S", "string") >>

FaultyStats == << NumericStat(1, "", <<10>>, <<5>>), CalculatedStat(1, "C", <<>>) >>

\* a schema without the integrations member
System(config, stats, sections) ==
    [config |-> config, stats |-> stats, sections |-> sections, integrations |-> <<>>]

\* Stat lists of 1..MaxStats stats, one stat of StatBodies at any position
\* among plain stats, with a sound and a faulty config and section list.
InitValidateStats ==
    \E config \in {DefaultConfig, NoConfig}, sections \in {DefaultSections, FaultySections} :
        \E n \in 1..MaxStats :
            \E plain \in [1..n -> PlainStatBodies], layout \in StatIdLayouts(n) :
                \E p \in 1..n, body \in StatBodies :
                    system = System(config,
                                 ArrayValue(WithIds([plain EXCEPT ![p] = body], layout)),
                                 ArrayValue(sections))

\* Section lists of at most MaxSections sections, with every config and with
\* no stat, sound stats and faulty stats.
InitValidateSections ==
    \E config \in Configs, stats \in {<<>>, DefaultStats, FaultyStats} :
        \E sections \in SectionLists(MaxSections) :
            system = System(config, ArrayValue(stats), ArrayValue(sections))

\* Documents (importJson stores whatever JSON.parse returns) whose stats or
\* sections field is missing or holds an object.
InitValidateNotArray ==
    \E config \in {DefaultConfig, NoConfig} :
        \E stats \in {ArrayValue(DefaultStats), ArrayValue(FaultyStats),
                       NotArrayValue("undefined"), NotArrayValue("object")},
           sections \in {ArrayValue(DefaultSections), ArrayValue(FaultySections),
                          NotArrayValue("undefined"), NotArrayValue("object")} :
            /\ "array" \notin {stats.kind, sections.kind}
                 \/ stats.kind # sections.kind
            /\ system = System(config, stats, sections)

InitValidate ==
    /\ pc = "call"
    /\ InitValidateStats \/ InitValidateSections \/ InitValidateNotArray
    /\ formulaArg = <<>>
    /\ statIdArg = 0
    /\ dependencies = <<>>
    /\ cyclic = FALSE
    /\ errors = <<>>
    /\ threw = FALSE
    /\ NoPreview
    /\ NoEditor
    /\ NoParts

CallValidate ==
    /\ pc = "call"
    /\ LET outcome == validate(system)
       IN /\ errors' = outcome.errs
          /\ threw' = outcome.threw
    /\ pc' = "done"
    /\ UNCHANGED <<system, formulaArg, statIdArg, dependencies, cyclic, previewVars, editorVars, partVars>>

NextValidate == CallValidate

SpecValidate == InitValidate /\ [][NextValidate]_vars

\* C5: validate returns an error list for every schema snapshot, also when
\* stats or sections is missing or no array; it never throws.
C5_ValidateNeverThrows ==
    pc = "done" => ~threw

\* validate returned: the call is over and did not throw
Returned == pc = "done" /\ ~threw

Reported(e) == \E p \in 1..Len(errors) : errors[p] = e

TimesReported(e) == Cardinality({p \in 1..Len(errors) : errors[p] = e})

StatPositions == 1..Len(system.stats.items)

StatAt(k) == system.stats.items[k]

\* the positions of the stats that carry id
Carriers(id) == {k \in StatPositions : StatAt(k).id = id}

DuplicateIdErrors(id) ==
    {p \in 1..Len(errors) :
        errors[p].kind = "stats id duplicado" /\ errors[p].value = id}

\* the indices of stats that an error message cites
CitedStatIndices(e) == {e.idx} \ {-1}

\* C6 as stated: when two stats share an id, validate yields exactly one
\* duplicate-id error, and that error cites the index positions of both stats.
C6_DuplicateIdErrorCitesBothStats ==
    Returned =>
        \A i, j \in StatPositions :
            (i < j /\ Carriers(StatAt(i).id) = {i, j}) =>
                /\ Cardinality(DuplicateIdErrors(StatAt(i).id)) = 1
                /\ \A p \in DuplicateIdErrors(StatAt(i).id) :
                      {i - 1, j - 1} \subseteq CitedStatIndices(errors[p])

\* C6 as amended: when two stats share an id, validate yields exactly one
\* duplicate-id error; it cites the index of the later stat and the shared id.
C6_DuplicateIdErrorCitesLaterStat ==
    Returned =>
        \A i, j \in StatPositions :
            (i < j /\ Carriers(StatAt(i).id) = {i, j}) =>
                /\ Cardinality(DuplicateIdErrors(StatAt(i).id)) = 1
                /\ \A p \in DuplicateIdErrors(StatAt(i).id) :
                      errors[p] = Error("stats id duplicado", j - 1, -1, StatAt(i).id)

\* two of three stats share id 1
C6_Witness ==
    /\ Returned
    /\ Len(system.stats.items) = 3
    /\ Carriers(1) = {1, 2}
    /\ Reported(Error("stats id duplicado", 1, -1, 1))

\* C7: a numeric stat gets exactly one range error when min and max are both
\* present and min > max, and none otherwise.
C7_RangeErrorIffMinAboveMax ==
    Returned =>
        \A k \in StatPositions :
            StatAt(k).type = "numeric" =>
                TimesReported(Error("stats min > max", k - 1, -1, -1))
                    = IF /\ StatAt(k).min # <<>>
                         /\ StatAt(k).max # <<>>
                         /\ StatAt(k).min[1] > StatAt(k).max[1]
                      THEN 1 ELSE 0

\* a numeric stat with min = 10 and max = 5 that is not the first stat
C7_Witness ==
    /\ Returned
    /\ \E k \in StatPositions :
          /\ k > 1
          /\ StatAt(k).type = "numeric"
          /\ StatAt(k).min = <<10>>
          /\ StatAt(k).max = <<5>>
          /\ Reported(Error("stats min > max", k - 1, -1, -1))

OptionErrors(k, kind) ==
    {p \in 1..Len(errors) : errors[p].kind = kind /\ errors[p].idx = k - 1}

\* C8: an enum stat with an inline option list gets an option-limit error iff
\* the list has more than 25 entries, and one duplicate-value error for every
\* option whose value occurred earlier in the list; an enum stat whose options
\* field is a reference gets neither.
C8_OptionLimitAndDuplicateValues ==
    Returned =>
        \A k \in StatPositions :
            StatAt(k).type = "enum" =>
                LET options == StatAt(k).options
                IN IF options.isArray
                   THEN /\ OptionErrors(k, "stats excede o limite de 25 opcoes") # {}
                            <=> Len(options.items) > 25
                        /\ \A j \in 1..Len(options.items) :
                              TimesReported(Error("stats.options.value duplicado", k - 1,
                                                  j - 1, options.items[j].value))
                                = IF \E i \in 1..(j - 1) :
                                        options.items[i].value = options.items[j].value
                                  THEN 1 ELSE 0
                        /\ Cardinality(OptionErrors(k, "stats.options.value duplicado"))
                              = Cardinality({j \in 1..Len(options.items) :
                                    \E i \in 1..(j - 1) :
                                        options.items[i].value = options.items[j].value})
                   ELSE /\ OptionErrors(k, "stats excede o limite de 25 opcoes") = {}
                        /\ OptionErrors(k, "stats.options.value duplicado") = {}

\* an enum with 26 inline options, the last repeating the value of the first
C8_Witness ==
    /\ Returned
    /\ \E k \in StatPositions :
          /\ StatAt(k).type = "enum"
          /\ StatAt(k).options.isArray
          /\ Len(StatAt(k).options.items) = 26
          /\ Reported(Error("stats excede o limite de 25 opcoes", k - 1, -1, 26))
          /\ Reported(Error("stats.options.value duplicado", k - 1, 25, 1))

\* the stat an id resolves to is the first stat that carries it
Resolves(id) == Carriers(id) # {}

ResolvedStat(id) == StatAt(CHOOSE k \in Carriers(id) : \A j \in Carriers(id) : k <= j)

ReferenceErrorValues(k) ==
    {errors[p].value : p \in OptionErrors(k, "stats.formula referencia stat inexistente")
                            \cup OptionErrors(k, "stats.formula referencia stat do tipo string")}

\* C9: for a calculated stat validate reports one error for each id that a
\* <stat:ID:value> token of its formula references and that no stat carries,
\* one error for each such id that resolves to a string stat, and none for a
\* reference that resolves to a stat of another type.
C9_ReferenceErrors ==
    Returned =>
        \A k \in StatPositions :
            StatAt(k).type = "calculated" =>
                LET refs == ValueTokenIds(StatAt(k).formula)
                IN /\ ReferenceErrorValues(k) \subseteq refs
                   /\ \A d \in refs :
                        /\ TimesReported(Error("stats.formula referencia stat inexistente",
                                               k - 1, -1, d))
                             = IF ~Resolves(d) THEN 1 ELSE 0
                        /\ TimesReported(Error("stats.formula referencia stat do tipo string",
                                               k - 1, -1, d))
                             = IF Resolves(d) /\ ResolvedStat(d).type = "string"
                               THEN 1 ELSE 0

\* a formula that references a string stat and an id no stat carries
C9_Witness ==
    /\ Returned
    /\ \E k \in StatPositions, d, e \in StatIds :
          /\ StatAt(k).type = "calculated"
          /\ {d, e} \subseteq ValueTokenIds(StatAt(k).formula)
          /\ Reported(Error("stats.formula referencia stat inexistente", k - 1, -1, d))
          /\ Reported(Error("stats.formula referencia stat do tipo string", k - 1, -1, e))

SectionPositions == 1..Len(system.sections.items)

SectionAt(k) == system.sections.items[k]

\* the error of a check, if the check is violated
FaultIf(violated, e) == IF violated THEN {e} ELSE {}

\* the errors of the checks that the config violates
ConfigFaults ==
    FaultIf(system.config.id = <<>>, Error("config.id obrigatorio", -1, -1, -1))
        \cup FaultIf(system.config.name = "",
                     Error("config.name.default obrigatorio", -1, -1, -1))

\* the errors of the checks that the stat at position k violates, each check
\* judged on its own
StatFaults(k) ==
    LET s == StatAt(k)
        inline == s.type = "enum" /\ s.options.isArray
        options == s.options.items
        calculated == s.type = "calculated"
        refs == ValueTokenIds(s.formula)
    IN FaultIf(\E i \in 1..(k - 1) : StatAt(i).id = s.id,
               Error("stats id duplicado", k - 1, -1, s.id))
       \cup FaultIf(s.name = "", Error("stats.name.default obrigatorio", k - 1, -1, -1))
       \cup FaultIf(/\ s.type = "numeric"
                    /\ s.min # <<>>
                    /\ s.max # <<>>
                    /\ s.min[1] > s.max[1],
                    Error("stats min > max", k - 1, -1, -1))
       \cup FaultIf(inline /\ Len(options) > 25,
                    Error("stats excede o limite de 25 opcoes", k - 1, -1, Len(options)))
       \cup UNION {FaultIf(/\ inline
                           /\ \E i \in 1..(j - 1) : options[i].value = options[j].value,
                           Error("stats.options.value duplicado", k - 1, j - 1,
                                 options[j].value)) : j \in 1..Len(options)}
       \cup UNION {FaultIf(inline /\ options[j].name = "",
                           Error("stats.options.name.default obrigatorio", k - 1, j - 1, -1))
                        : j \in 1..Len(options)}
       \cup FaultIf(calculated /\ s.formula = <<>>,
                    Error("stats.formula obrigatorio", k - 1, -1, -1))
       \cup FaultIf(/\ calculated
                    /\ CycleReachableFrom(
                           DependencyGraph(s.id, s.formula, system.stats.items), s.id),
                    Error("stats tem dependencia circular na formula", k - 1, -1, -1))
       \cup UNION {FaultIf(calculated /\ ~Resolves(d),
                           Error("stats.formula referencia stat inexistente", k - 1, -1, d))
                        : d \in refs}
       \cup UNION {FaultIf(calculated /\ Resolves(d) /\ ResolvedStat(d).type = "string",
                           Error("stats.formula referencia stat do tipo string", k - 1, -1, d))
                        : d \in refs}

SectionFaults(k) ==
    LET sec == SectionAt(k)
    IN FaultIf(\E i \in 1..(k - 1) : SectionAt(i).id = sec.id,
               Error("sections id duplicado", k - 1, -1, sec.id))
       \cup FaultIf(sec.name = "", Error("sections.name.default obrigatorio", k - 1, -1, -1))
       \cup FaultIf(sec.previewType = "",
                    Error("sections.preview.type obrigatorio", k - 1, -1, -1))

AllFaults ==
    ConfigFaults \cup UNION {StatFaults(k) : k \in StatPositions}
        \cup UNION {SectionFaults(k) : k \in SectionPositions}

SectionErrorKinds ==
    {"sections id duplicado", "sections.name.default obrigatorio",
     "sections.preview.type obrigatorio"}

\* the place of an error in the order config, stats by index, sections by index
ErrorRank(e) ==
    IF e.idx = -1 THEN 0
    ELSE IF e.kind \in SectionErrorKinds THEN 1 + Len(system.stats.items) + e.idx
    ELSE 1 + e.idx

\* C10: on a schema whose stats and sections are arrays, the returned list
\* holds the error of every violated check, whatever other checks fail, each
\* once and no other error, in the order config, stats by index, sections by
\* index.
C10_EveryFaultReportedInOrder ==
    Returned =>
        /\ {errors[p] : p \in 1..Len(errors)} = AllFaults
        /\ Len(errors) = Cardinality(AllFaults)
        /\ \A p, q \in 1..Len(errors) :
              p < q => ErrorRank(errors[p]) <= ErrorRank(errors[q])

\* config, two different stats and a section are faulty at once
C10_Witness ==
    /\ Returned
    /\ ConfigFaults # {}
    /\ \E i, j \in StatPositions : i # j /\ StatFaults(i) # {} /\ StatFaults(j) # {}
    /\ \E k \in SectionPositions : SectionFaults(k) # {}
    /\ Len(errors) >= 6

----------------------------------------------------------------------------
(* SmartPreview.  The texts it reads and writes are sequences of characters. *)
(* A name or an emoji of the schema is held as one string; Chars gives its  *)
(* characters.                                                              *)

Chars(s) ==
    CASE s = "" -> <<>>
      [] s = "N" -> <<"N">>
      [] s = "A" -> <<"A">>
      [] s = "Forca" -> <<"F", "o", "r", "c", "a">>
      [] s = "<math:1 + 1>" -> <<"<", "m", "a", "t", "h", ":", "1", " ", "+", " ", "1", ">">>
      [] s = "<dice:1d6>" -> <<"<", "d", "i", "c", "e", ":", "1", "d", "6", ">">>
      [] OTHER -> <<s>>

\* String(n) of an integer
RECURSIVE NaturalDigits(_)
NaturalDigits(n) ==
    IF n < 10 THEN <<ToDigit(n)>>
    ELSE Append(NaturalDigits(n \div 10), ToDigit(n % 10))

\* the digits without the sign
StringUnsigned(n) == NaturalDigits(IF n < 0 THEN 0 - n ELSE n)

String(n) == IF n < 0 THEN <<"-">> \o NaturalDigits(-n) ELSE NaturalDigits(n)

\* stat.min || fallback: an absent min and the min 0 are both falsy
MinOr(min, fallback) ==
    IF Len(min) = 1 /\ min[1] # 0 THEN min[1] ELSE fallback

\* firstOption.name?.[locale] || firstOption.name?.default || 'Option 1'
firstOptionName(options) ==
    IF options[1].name # "" THEN Chars(options[1].name)
    ELSE <<"O", "p", "t", "i", "o", "n", " ", "1">>

\* Array.isArray(stat.options) && stat.options.length > 0
HasInlineOptions(stat) == stat.options.isArray /\ Len(stat.options.items) > 0

\* typeof stat.options === 'number' && stat.options > 0
HasReferenceOptions(stat) == ~stat.options.isArray /\ stat.options.ref > 0

\* case 'value' of resolveVariableValue
resolveStatValue(stat, stats) ==
    CASE stat.type = "numeric" -> String(MinOr(stat.min, 1))
      [] stat.type = "string" -> <<"s", "t", "r", "i", "n", "g">>
      [] stat.type = "boolean" -> <<"f", "a", "l", "s", "e">>
      [] stat.type = "enum" ->
            IF HasInlineOptions(stat) THEN firstOptionName(stat.options.items)
            ELSE IF HasReferenceOptions(stat)
            THEN LET r == statFind(stats, stat.options.ref)
                 IN IF r # 0 /\ HasInlineOptions(stats[r])
                    THEN firstOptionName(stats[r].options.items)
                    ELSE <<"[", "r", "e", "f", ":", " ">> \o String(stat.options.ref)
                            \o <<"]">>
            ELSE <<"e", "n", "u", "m">>
      [] stat.type = "calculated" ->
            <<"[", "c", "a", "l", "c", "u", "l", "a", "d", "o", "]">>
      [] OTHER -> <<"v", "a", "l", "o", "r">>

\* `[propriedade ${property} desconhecida]`
unknownProperty(property) ==
    <<"[", "p", "r", "o", "p", "r", "i", "e", "d", "a", "d", "e", " ">> \o property
        \o <<" ", "d", "e", "s", "c", "o", "n", "h", "e", "c", "i", "d", "a", "]">>

\* `[Stat ${id} não encontrado]`
statNotFound(id) ==
    <<"[", "S", "t", "a", "t", " ">> \o id
        \o <<" ", "n", "ã", "o", " ", "e", "n", "c", "o", "n", "t", "r", "a", "d", "o", "]">>

\* `[Seção ${id} não encontrada]`
sectionNotFound(id) ==
    <<"[", "S", "e", "ç", "ã", "o", " ">> \o id
        \o <<" ", "n", "ã", "o", " ", "e", "n", "c", "o", "n", "t", "r", "a", "d", "a", "]">>

\* sections.find(s => s.id === numId): the index of the first such section, or 0
sectionFind(sections, id) ==
    LET found == {k \in 1..Len(sections) : sections[k].id = id}
    IN IF found = {} THEN 0 ELSE CHOOSE k \in found : \A j \in found : k <= j

\* resolveVariableValue(type, id, property), with the locale 'default'; id and
\* property are the texts the regular expression captured
resolveVariableValue(type, id, property, stats, sections) ==
    LET numId == parseInt(id)
    IN IF type = "stat"
       THEN LET k == statFind(stats, numId)
            IN IF k = 0 THEN statNotFound(id)
               ELSE IF property = NameProp
               THEN IF stats[k].name # "" THEN Chars(stats[k].name)
                    ELSE <<"S", "t", "a", "t", " ">> \o id
               ELSE IF property = EmojiProp THEN Chars(stats[k].emoji)
               ELSE IF property = ValueProp THEN resolveStatValue(stats[k], stats)
               ELSE unknownProperty(property)
       ELSE IF type = "section"
       THEN LET k == sectionFind(sections, numId)
            IN IF k = 0 THEN sectionNotFound(id)
               ELSE IF property = NameProp
               THEN IF sections[k].name # "" THEN Chars(sections[k].name)
                    ELSE <<"S", "e", "ç", "ã", "o", " ">> \o id
               ELSE IF property = EmojiProp THEN Chars(sections[k].emoji)
               ELSE unknownProperty(property)
       ELSE <<"[", "t", "i", "p", "o", " ">> \o Chars(type)
                \o <<" ", "d", "e", "s", "c", "o", "n", "h", "e", "c", "i", "d", "o", "]">>

\* String(stat.options[0].value), through one reference to another enum, or
\* the fallback of the call site
firstOptionValue(stat, stats, fallback) ==
    IF HasInlineOptions(stat) THEN String(stat.options.items[1].value)
    ELSE LET r == IF HasReferenceOptions(stat) THEN statFind(stats, stat.options.ref)
                  ELSE 0
         IN IF r # 0 /\ HasInlineOptions(stats[r])
            THEN String(stats[r].options.items[1].value)
            ELSE fallback

\* the replacement callback of evaluateMathExpression
mathStatValue(id, stats) ==
    LET k == statFind(stats, parseInt(id))
    IN IF k = 0 THEN <<"0">>
       ELSE CASE stats[k].type = "numeric" -> String(MinOr(stats[k].min, 1))
              [] stats[k].type = "boolean" -> <<"0">>
              [] stats[k].type = "enum" -> firstOptionValue(stats[k], stats, <<"1">>)
              [] stats[k].type = "calculated" -> <<"0">>
              [] OTHER -> <<"0">>

\* the replacement callback of evaluateDiceExpression
diceStatValue(id, stats) ==
    LET k == statFind(stats, parseInt(id))
    IN IF k = 0 THEN <<"3">>
       ELSE CASE stats[k].type = "numeric" -> String(MinOr(stats[k].min, 3))
              [] stats[k].type = "boolean" -> <<"1">>
              [] stats[k].type = "enum" -> firstOptionValue(stats[k], stats, <<"2">>)
              [] stats[k].type = "calculated" -> <<"3">>
              [] OTHER -> <<"3">>

\* expression.replace(/<(stat):(\d+):(value)>/g, callback), from position i;
\* site names the callback
RECURSIVE replaceValueTokens(_, _, _, _)
replaceValueTokens(expression, i, stats, site) ==
    LET matches == {k \in i..Len(expression) : MatchesAt(expression, k)}
    IN IF matches = {} THEN SubSeq(expression, i, Len(expression))
       ELSE LET m == Least(matches)
                s == m + Len(StatOpen)
                e == DigitRunEnd(expression, s)
                id == SubSeq(expression, s, e - 1)
            IN SubSeq(expression, i, m - 1)
                  \o (IF site = "math" THEN mathStatValue(id, stats)
                      ELSE diceStatValue(id, stats))
                  \o replaceValueTokens(expression, e + Len(ValueClose), stats, site)

----------------------------------------------------------------------------
(* The two collaborators of SmartPreview, on the inputs the previews of    *)
(* this model hand them.                                                    *)

\* the position of the first character at or after i that is no space
skipSpaces(text, i) ==
    LET others == {k \in i..Len(text) : text[k] # " "}
    IN IF i > Len(text) THEN i
       ELSE IF others = {} THEN Len(text) + 1
       ELSE Least(others)

NoTerm == [ok |-> FALSE, number |-> 0, end |-> 0]

\* a term of a sum at position i: a decimal number, false or true, with or
\* without a minus sign; end is the position after the term
parseTerm(text, i) ==
    LET negative == i <= Len(text) /\ text[i] = "-"
        s == IF negative THEN skipSpaces(text, i + 1) ELSE i
        sign == IF negative THEN -1 ELSE 1
        e == DigitRunEnd(text, s)
    IN IF e > s
       THEN [ok |-> TRUE, number |-> sign * parseInt(SubSeq(text, s, e - 1)), end |-> e]
       ELSE IF HasAt(text, s, <<"f", "a", "l", "s", "e">>)
       THEN [ok |-> TRUE, number |-> 0, end |-> s + 5]
       ELSE IF HasAt(text, s, <<"t", "r", "u", "e">>)
       THEN [ok |-> TRUE, number |-> sign, end |-> s + 4]
       ELSE NoTerm

\* the sum of the terms from position i on, added to acc
RECURSIVE parseSum(_, _, _)
parseSum(text, i, acc) ==
    LET term == parseTerm(text, skipSpaces(text, i))
    IN IF ~term.ok THEN NoTerm
       ELSE LET j == skipSpaces(text, term.end)
            IN IF j > Len(text)
               THEN [ok |-> TRUE, number |-> acc + term.number, end |-> j]
               ELSE IF text[j] = "+" THEN parseSum(text, j + 1, acc + term.number)
               ELSE NoTerm

\* evaluate(processedExpression) of math.js followed by String(result): a sum
\* of numbers and booleans evaluates to a number, any other text of the
\* previews is an error of the evaluator
evaluate(text) ==
    LET sum == parseSum(text, 1, 0)
    IN [ok |-> sum.ok, text |-> IF sum.ok THEN String(sum.number) ELSE <<>>]

\* the faces of count dice, joined by ", "
RECURSIVE rolledFaces(_, _)
rolledFaces(count, face) ==
    IF count = 1 THEN String(face)
    ELSE String(face) \o <<",", " ">> \o rolledFaces(count - 1, face)

\* new DiceRoll(processedExpression).output of the dice roller: the notation
\* "<count>d<sides>" rolls count dice, which all show the lowest face when the
\* random source yields 0 and the highest when it yields 1; any other text of
\* the previews is an error of the roller
DiceRoll(notation, rnd) ==
    LET e == DigitRunEnd(notation, 1)
        f == DigitRunEnd(notation, e + 1)
        wellFormed == /\ e > 1
                      /\ e <= Len(notation)
                      /\ notation[e] = "d"
                      /\ f > e + 1
                      /\ f = Len(notation) + 1
        count == parseInt(SubSeq(notation, 1, e - 1))
        sides == parseInt(SubSeq(notation, e + 1, f - 1))
    IN IF wellFormed /\ count >= 1 /\ sides >= 1
       THEN LET face == IF rnd = 0 THEN 1 ELSE sides
            IN [ok |-> TRUE,
                output |-> notation \o <<":", " ", "[">> \o rolledFaces(count, face)
                              \o <<"]", " ", "=", " ">> \o String(count * face)]
       ELSE [ok |-> FALSE, output |-> <<>>]

----------------------------------------------------------------------------
(* The passes of SmartPreview *)

\* evaluateMathExpression: the text it returns and the string the evaluator
\* received
evaluateMathExpression(expression, stats) ==
    LET processedExpression == replaceValueTokens(expression, 1, stats, "math")
        result == evaluate(processedExpression)
    IN [text |-> IF result.ok THEN result.text
                 ELSE <<"[", "E", "r", "r", "o", ":", " ">> \o expression \o <<"]">>,
        received |-> processedExpression]

\* evaluateDiceExpression; the message of the roller's error is one symbol
evaluateDiceExpression(expression, stats, rnd) ==
    LET processedExpression == replaceValueTokens(expression, 1, stats, "dice")
        roll == DiceRoll(processedExpression, rnd)
    IN [text |-> IF roll.ok THEN <<"U+1F3B2", " ">> \o roll.output
                 ELSE <<"[", "E", "r", "r", "o", " ", "d", "a", "d", "o", "s", ":", " ",
                        "error.message", "]">>,
        received |-> processedExpression]

SectionOpen == <<"<", "s", "e", "c", "t", "i", "o", "n", ":">>
MathOpen == <<"<", "m", "a", "t", "h", ":">>
DiceOpen == <<"<", "d", "i", "c", "e", ":">>

NoMatch ==
    [found |-> FALSE, type |-> "", id |-> <<>>, property |-> <<>>, start |-> 0, end |-> 0]

\* /<(stat|section):(\d+):(name|value|emoji)>/ at position i; end is the
\* position of the closing ">", start the position of the "<"
variableMatchOf(text, i, type, open) ==
    LET s == i + Len(open)
        e == DigitRunEnd(text, s)
        properties == {p \in {NameProp, ValueProp, EmojiProp} :
                          HasAt(text, e, <<":">> \o p \o <<">">>)}
    IN IF HasAt(text, i, open) /\ e > s /\ properties # {}
       THEN LET property == CHOOSE p \in properties : TRUE
            IN [found |-> TRUE, type |-> type, id |-> SubSeq(text, s, e - 1),
                property |-> property, start |-> i, end |-> e + Len(property) + 1]
       ELSE NoMatch

variableMatch(text, i) ==
    IF HasAt(text, i, StatOpen) THEN variableMatchOf(text, i, "stat", StatOpen)
    ELSE variableMatchOf(text, i, "section", SectionOpen)

\* value.replace(/<(stat|section):(\d+):(name|value|emoji)>/g, ...), from
\* position i
RECURSIVE replaceVariables(_, _, _, _)
replaceVariables(text, i, stats, sections) ==
    LET matches == {k \in i..Len(text) : variableMatch(text, k).found}
    IN IF matches = {} THEN SubSeq(text, i, Len(text))
       ELSE LET m == variableMatch(text, Least(matches))
            IN SubSeq(text, i, m.start - 1)
                  \o resolveVariableValue(m.type, m.id, m.property, stats, sections)
                  \o replaceVariables(text, m.end + 1, stats, sections)

\* the position of the first ">" at or after i, Len(text) + 1 when there is none
closingAt(text, i) ==
    LET closings == {k \in i..Len(text) : text[k] = ">"}
    IN IF i > Len(text) THEN i
       ELSE IF closings = {} THEN Len(text) + 1
       ELSE Least(closings)

\* /<math:([^>]+)>/ or /<dice:([^>]+)>/ at position i: the position of the
\* closing ">", 0 when there is no match
expressionMatch(text, i, open) ==
    LET s == i + Len(open)
        e == closingAt(text, s)
    IN IF HasAt(text, i, open) /\ e > s /\ e <= Len(text) THEN e ELSE 0

\* processedValue.replace(/<math:([^>]+)>/g, ...), from position i; acc holds
\* the text written and the strings the evaluator received so far
RECURSIVE replaceMath(_, _, _, _)

\* the match at position m replaced and the text between i and m kept
replaceMathAt(text, i, m, stats, acc) ==
    LET e == expressionMatch(text, m, MathOpen)
        r == evaluateMathExpression(SubSeq(text, m + Len(MathOpen), e - 1), stats)
    IN replaceMath(text, e + 1, stats,
           [text |-> acc.text \o SubSeq(text, i, m - 1) \o r.text,
            received |-> Append(acc.received, r.received)])

replaceMath(text, i, stats, acc) ==
    LET matches == {k \in i..Len(text) : expressionMatch(text, k, MathOpen) # 0}
    IN IF matches = {}
       THEN [acc EXCEPT !.text = acc.text \o SubSeq(text, i, Len(text))]
       ELSE replaceMathAt(text, i, Least(matches), stats, acc)

\* processedValue.replace(/<dice:([^>]+)>/g, ...)
RECURSIVE replaceDice(_, _, _, _, _)

replaceDiceAt(text, i, m, stats, rnd, acc) ==
    LET e == expressionMatch(text, m, DiceOpen)
        r == evaluateDiceExpression(SubSeq(text, m + Len(DiceOpen), e - 1), stats, rnd)
    IN replaceDice(text, e + 1, stats, rnd,
           [text |-> acc.text \o SubSeq(text, i, m - 1) \o r.text,
            received |-> Append(acc.received, r.received)])

replaceDice(text, i, stats, rnd, acc) ==
    LET matches == {k \in i..Len(text) : expressionMatch(text, k, DiceOpen) # 0}
    IN IF matches = {}
       THEN [acc EXCEPT !.text = acc.text \o SubSeq(text, i, Len(text))]
       ELSE replaceDiceAt(text, i, Least(matches), stats, rnd, acc)

\* processedValue.replace(/\n/g, '  \n')
RECURSIVE replaceLineBreaks(_)
replaceLineBreaks(text) ==
    LET breaks == {k \in 1..Len(text) : text[k] = "\n"}
    IN IF breaks = {} THEN text
       ELSE LET b == Least(breaks)
            IN SubSeq(text, 1, b - 1) \o <<" ", " ", "\n">>
                  \o replaceLineBreaks(SubSeq(text, b + 1, Len(text)))

NothingReceived == [text |-> <<>>, received |-> <<>>]

\* the text SmartPreview renders and what it handed to its collaborators
SmartPreview(text, sections, stats, rnd) ==
    LET variables == replaceVariables(text, 1, stats, sections)
        math == replaceMath(variables, 1, stats, NothingReceived)
        dice == replaceDice(math.text, 1, stats, rnd, NothingReceived)
    IN [processedValue |-> replaceLineBreaks(dice.text),
        evaluated |-> math.received,
        rolled |-> dice.received]

----------------------------------------------------------------------------
(* SmartPreview applied to texts and schemas *)

\* segments concatenated into a text given to SmartPreview
MaxSegments == 3

\* "<stat:ID:PROPERTY>" and "<section:ID:PROPERTY>" with a one-digit id
StatRef(id, property) == StatToken(<<ToDigit(id)>>, property)
SectionRef(id, property) == SectionToken(<<ToDigit(id)>>, property)

MathOf(expression) == MathOpen \o expression \o <<">">>
DiceOf(expression) == DiceOpen \o expression \o <<">">>

PlusTwo == <<" ", "+", " ", "2">>

\* the id that no stat and no section of a preview schema carries
MissingId == 9

\* the stats beside the first: an enum that other enums may reference, a stat
\* whose name is the text of a math token, an enum that references the first
\* of these, an enum whose option has no name and an enum without options
PreviewOtherStats ==
    << EnumStat(2, "E", InlineOptions(<<Option(7, "A")>>)),
       NumericStat(3, "<math:1 + 1>", <<0>>, <<10>>),
       EnumStat(4, "E", ReferenceOptions(2)),
       EnumStat(5, "E", InlineOptions(<<Option(8, "")>>)),
       EnumStat(6, "E", InlineOptions(<<>>)) >>

\* a section with an emoji and one whose name is the text of a dice token
PreviewSections ==
    << [Section(1, "N", "string") EXCEPT !.emoji = "S"],
       Section(2, "<dice:1d6>", "string") >>

\* the first stat: every type, with and without the fields a sample is read from
PreviewSubjects ==
    { NumericStat(1, "Forca", <<3>>, <<10>>), NumericStat(1, "Forca", <<0>>, <<10>>),
      NumericStat(1, "Forca", <<-2>>, <<10>>), NumericStat(1, "Forca", <<>>, <<>>),
      [NumericStat(1, "", <<3>>, <<10>>) EXCEPT !.emoji = "F"],
      BooleanStat(1, "B"), StringStat(1, "S"), CalculatedStat(1, "C", <<>>),
      EnumStat(1, "E", InlineOptions(<<Option(7, "A"), Option(8, "B")>>)),
      EnumStat(1, "E", InlineOptions(<<Option(7, "")>>)),
      EnumStat(1, "E", InlineOptions(<<>>)),
      EnumStat(1, "E", ReferenceOptions(2)),
      EnumStat(1, "E", ReferenceOptions(MissingId)),
      EnumStat(1, "E", ReferenceOptions(1)), EnumStat(1, "E", ReferenceOptions(3)),
      EnumStat(1, "E", ReferenceOptions(4)), EnumStat(1, "E", ReferenceOptions(5)),
      EnumStat(1, "E", ReferenceOptions(6)) }

PreviewSystem(subject) ==
    System(DefaultConfig, ArrayValue(<<subject>> \o PreviewOtherStats),
           ArrayValue(PreviewSections))

\* one token that reads the first stat or a section
SampleTexts ==
    { StatRef(1, ValueProp), StatRef(1, NameProp), StatRef(1, EmojiProp),
      MathOf(StatRef(1, ValueProp) \o PlusTwo),
      DiceOf(<<"1", "d">> \o StatRef(1, ValueProp)),
      DiceOf(<<"2", "d">> \o StatRef(1, ValueProp)),
      DiceOf(<<"x">>),
      SectionRef(1, NameProp), SectionRef(1, EmojiProp), SectionRef(2, NameProp),
      SectionRef(MissingId, NameProp), SectionRef(1, ValueProp) }

\* tokens that resolve, tokens that do not, a math token whose payload opens
\* a dice token, and literal text
Segments ==
    { StatRef(3, NameProp),
      StatRef(MissingId, ValueProp), SectionRef(1, ValueProp),
      StatOpen \o <<"1", ":", "f", "o", "o", ">">>,
      MathOf(StatRef(MissingId, ValueProp) \o PlusTwo),
      DiceOf(<<"1", "d">> \o StatRef(1, ValueProp)),
      MathOf(<<"<", "d", "i", "c", "e", ":", "1", "d", "6">>),
      <<"x", "\n">>, <<" ", "+", " ", "1", ">">> }

RECURSIVE SegmentTexts(_)
SegmentTexts(n) ==
    IF n = 0 THEN {<<>>}
    ELSE LET shorter == SegmentTexts(n - 1)
         IN shorter \cup {t \o p : t \in shorter, p \in Segments}

\* one token rendered against every kind of first stat
InitPreviewSamples ==
    /\ valueArg \in SampleTexts
    /\ \E subject \in PreviewSubjects : system = PreviewSystem(subject)

\* every text of the bound rendered against one schema
InitPreviewTexts ==
    /\ valueArg \in SegmentTexts(MaxSegments)
    /\ system = PreviewSystem(NumericStat(1, "Forca", <<3>>, <<10>>))

InitPreview ==
    /\ pc = "call"
    /\ InitPreviewSamples \/ InitPreviewTexts
    /\ random \in {0, 1}
    /\ processedValue = <<>>
    /\ evaluated = <<>>
    /\ rolled = <<>>
    /\ NoEditor
    /\ NoParts
    /\ formulaArg = <<>>
    /\ statIdArg = 0
    /\ dependencies = <<>>
    /\ cyclic = FALSE
    /\ errors = <<>>
    /\ threw = FALSE

\* one render of SmartPreview
CallSmartPreview ==
    /\ pc = "call"
    /\ \E preview \in {SmartPreview(valueArg, system.sections.items,
                                     system.stats.items, random)} :
          /\ processedValue' = preview.processedValue
          /\ evaluated' = preview.evaluated
          /\ rolled' = preview.rolled
    /\ pc' = "done"
    /\ UNCHANGED <<system, formulaArg, statIdArg, dependencies, cyclic, errors, threw,
                   valueArg, random, editorVars, partVars>>

NextPreview == CallSmartPreview

SpecPreview == InitPreview /\ [][NextPreview]_vars

----------------------------------------------------------------------------
(* The token stream of a text, read from left to right: a reference        *)
(* "<stat:ID:PROPERTY>" or "<section:ID:PROPERTY>" with a decimal id and a  *)
(* property written in letters, or an expression "<math:...>" or            *)
(* "<dice:...>" that ends at the first ">"; what lies between tokens is     *)
(* literal text.                                                            *)

Letter ==
    {"a", "b", "c", "d", "e", "f", "g", "h", "i", "j", "k", "l", "m", "n", "o", "p",
     "q", "r", "s", "t", "u", "v", "w", "x", "y", "z"}

\* the position of the ">" that closes a reference starting at i, or 0
ReferenceEnd(text, i, open) ==
    LET s == i + Len(open)
        e == DigitRunEnd(text, s)
        c == closingAt(text, e + 1)
    IN IF /\ HasAt(text, i, open)
          /\ e > s
          /\ HasAt(text, e, <<":">>)
          /\ c > e + 1
          /\ c <= Len(text)
          /\ \A k \in (e + 1)..(c - 1) : text[k] \in Letter
       THEN c ELSE 0

Token(kind, text, i, end) ==
    [kind |-> kind, start |-> i, end |-> end,
     id |-> IF kind \in {"stat", "section"}
            THEN SubSeq(text, i + (IF kind = "stat" THEN 6 ELSE 9),
                        DigitRunEnd(text, i + (IF kind = "stat" THEN 6 ELSE 9)) - 1)
            ELSE <<>>,
     property |-> IF kind \in {"stat", "section"}
                  THEN SubSeq(text,
                              DigitRunEnd(text, i + (IF kind = "stat" THEN 6 ELSE 9)) + 1,
                              end - 1)
                  ELSE <<>>]

\* the tokens of text from position i on
RECURSIVE TokensFrom(_, _)
TokensFrom(text, i) ==
    IF i > Len(text) THEN {}
    ELSE LET ends == [kind \in {"stat", "section", "math", "dice"} |->
                        CASE kind = "stat" -> ReferenceEnd(text, i, StatOpen)
                          [] kind = "section" -> ReferenceEnd(text, i, SectionOpen)
                          [] kind = "math" -> expressionMatch(text, i, MathOpen)
                          [] kind = "dice" -> expressionMatch(text, i, DiceOpen)]
             kinds == {kind \in DOMAIN ends : ends[kind] # 0}
         IN IF kinds = {} THEN TokensFrom(text, i + 1)
            ELSE LET kind == CHOOSE k \in kinds : TRUE
                 IN {Token(kind, text, i, ends[kind])} \cup TokensFrom(text, ends[kind] + 1)

\* the tokens of the text under preview, the text before a token and after it
Tokens == TokensFrom(valueArg, 1)

Before(token) == SubSeq(valueArg, 1, token.start - 1)

After(token) == SubSeq(valueArg, token.end + 1, Len(valueArg))

\* what SmartPreview shows for a text against the schema of the call
Rendered(text) ==
    SmartPreview(text, system.sections.items, system.stats.items, random).processedValue

\* a text without any token opener, and how literal text is shown: as it is,
\* each line break in its markdown form
IsLiteral(text) == \A k \in 1..Len(text) : text[k] # "<"

LiteralShown(text) ==
    [k \in 1..(Len(text) + 2 * Cardinality({j \in 1..Len(text) : text[j] = "\n"})) |->
        LET source == CHOOSE j \in 1..Len(text) :
                        LET upTo == j + 2 * Cardinality({i \in 1..j : text[i] = "\n"})
                        IN /\ k <= upTo
                           /\ \A h \in 1..(j - 1) :
                                 h + 2 * Cardinality({i \in 1..h : text[i] = "\n"}) < k
            upTo == source + 2 * Cardinality({i \in 1..source : text[i] = "\n"})
        IN IF text[source] = "\n" /\ k < upTo THEN " " ELSE text[source]]

\* the text before a token leaves no expression open: a ">" that follows it
\* would close nothing
Closed(text) == Rendered(text \o <<">">>) = Rendered(text) \o <<">">>

ShownAround(token, replacement) ==
    (IF IsLiteral(Before(token)) THEN LiteralShown(Before(token))
     ELSE Rendered(Before(token)))
        \o replacement
        \o (IF IsLiteral(After(token)) THEN LiteralShown(After(token))
            ELSE Rendered(After(token)))

IdCarried(token) ==
    LET list == IF token.kind = "stat" THEN system.stats.items ELSE system.sections.items
    IN \E k \in 1..Len(list) : list[k].id = DecimalValue(token.id)

NotFoundDiagnostic(token) ==
    IF token.kind = "stat"
    THEN <<"[", "S", "t", "a", "t", " ">> \o token.id
            \o <<" ", "n", "ã", "o", " ", "e", "n", "c", "o", "n", "t", "r", "a", "d", "o", "]">>
    ELSE <<"[", "S", "e", "ç", "ã", "o", " ">> \o token.id
            \o <<" ", "n", "ã", "o", " ", "e", "n", "c", "o", "n", "t", "r", "a", "d", "a", "]">>

\* reference tokens with a property that SmartPreview knows and an id that
\* the schema does not carry
UnknownIdTokens ==
    {token \in Tokens :
        /\ token.kind \in {"stat", "section"}
        /\ token.property \in {NameProp, ValueProp, EmojiProp}
        /\ ~IdCarried(token)}

\* the text around a token as it stays when nothing in it is resolved: literal
\* text as it was written, text with other tokens as it is shown on its own
AsWritten(text) == IF IsLiteral(text) THEN text ELSE Rendered(text)

\* C12: a stat or section token whose id the schema does not carry is shown
\* as the bracketed "not found" diagnostic with that id, in the place of the
\* token, and the literal text around it is unchanged.  SmartPreview has no
\* path that ends in an exception.
C12_UnknownIdShownAsNotFound ==
    pc = "done" =>
        \A token \in UnknownIdTokens :
            processedValue = AsWritten(Before(token)) \o NotFoundDiagnostic(token)
                                \o AsWritten(After(token))

\* the stat a one-token sample text reads
SampleStat == system.stats.items[1]

\* the numeric sample of a stat in an arithmetic payload: a numeric stat's
\* declared min (1 when it declares none), 0 for a boolean, the value of the
\* first option of an enum (its own or the referenced enum's, 1 when there is
\* none), 0 for a calculated stat
NumericSample(stat) ==
    CASE stat.type = "numeric" -> IF stat.min # <<>> THEN stat.min[1] ELSE 1
      [] stat.type = "boolean" -> 0
      [] stat.type = "calculated" -> 0
      [] stat.type = "enum" ->
            LET own == stat.options
                target == IF own.isArray THEN stat
                          ELSE IF \E k \in StatPositions : StatAt(k).id = own.ref
                          THEN ResolvedStat(own.ref)
                          ELSE stat
            IN IF target.options.isArray /\ target.options.items # <<>>
               THEN target.options.items[1].value
               ELSE 1

\* C13: for the text "<math:<stat:1:value> + 2>" the arithmetic evaluator
\* receives the numeric sample of stat 1 followed by " + 2", whatever the type
\* of stat 1 (a string stat has no numeric sample).
C13_EvaluatorReceivesNumericSample ==
    (/\ pc = "done"
     /\ valueArg = MathOf(StatRef(1, ValueProp) \o PlusTwo)
     /\ SampleStat.type # "string")
        => evaluated = <<String(NumericSample(SampleStat)) \o PlusTwo>>

\* C14: a numeric stat that declares a min m is sampled as m, in plain text,
\* in a math payload and in a dice payload, also when m is 0 or negative.
C14_NumericSampleIsDeclaredMin ==
    (/\ pc = "done"
     /\ SampleStat.type = "numeric"
     /\ SampleStat.min # <<>>)
        => LET m == String(SampleStat.min[1])
           IN /\ valueArg = StatRef(1, ValueProp) => processedValue = m
              /\ valueArg = MathOf(StatRef(1, ValueProp) \o PlusTwo)
                    => evaluated = <<m \o PlusTwo>>
              /\ valueArg = DiceOf(<<"1", "d">> \o StatRef(1, ValueProp))
                    => rolled = <<<<"1", "d">> \o m>>

\* math and dice tokens on which the collaborator fails when the token is
\* rendered alone
TokenText(token) == SubSeq(valueArg, token.start, token.end)

CollaboratorFails(text) ==
    LET alone == SmartPreview(text, system.sections.items, system.stats.items, random)
    IN \/ alone.evaluated # <<>> /\ ~evaluate(alone.evaluated[1]).ok
       \/ alone.rolled # <<>> /\ ~DiceRoll(alone.rolled[1], random).ok

FailingTokens ==
    {token \in Tokens :
        token.kind \in {"math", "dice"} /\ CollaboratorFails(TokenText(token))}

Bracketed(text) == text # <<>> /\ Head(text) = "[" /\ text[Len(text)] = "]"

\* C18: a math or dice token on which the collaborator fails is shown as a
\* bracketed error string in its place; the text before it and the text after
\* it are shown as they are shown without the failing token.
C18_FailureConfinedToItsToken ==
    pc = "done" =>
        \A token \in FailingTokens :
            Closed(Before(token)) =>
                /\ Bracketed(Rendered(TokenText(token)))
                /\ processedValue = ShownAround(token, Rendered(TokenText(token)))

\* the name a name token reads, "" when the id is not carried or the name is
\* empty
NameRead(token) ==
    LET list == IF token.kind = "stat" THEN system.stats.items ELSE system.sections.items
        carriers == {k \in 1..Len(list) : list[k].id = DecimalValue(token.id)}
    IN IF carriers = {} THEN ""
       ELSE list[CHOOSE k \in carriers : \A j \in carriers : k <= j].name

NameTokens ==
    {token \in Tokens :
        /\ token.kind \in {"stat", "section"}
        /\ token.property = NameProp
        /\ NameRead(token) # ""}

\* C19: the name that replaces a name token is shown as it is, also when the
\* name has the text of a token; it is not scanned again.
C19_ReplacementNotScannedAgain ==
    pc = "done" =>
        \A token \in NameTokens :
            Closed(Before(token)) =>
                processedValue = ShownAround(token, LiteralShown(Chars(NameRead(token))))

\* reference tokens with an id the schema carries and a property outside the
\* set of the token's kind
UnknownPropertyTokens ==
    {token \in Tokens :
        /\ token.kind \in {"stat", "section"}
        /\ IdCarried(token)
        /\ token.property \notin (IF token.kind = "stat"
                                  THEN {NameProp, ValueProp, EmojiProp}
                                  ELSE {NameProp, EmojiProp})}

UnknownPropertyDiagnostic(token) ==
    <<"[", "p", "r", "o", "p", "r", "i", "e", "d", "a", "d", "e", " ">> \o token.property
        \o <<" ", "d", "e", "s", "c", "o", "n", "h", "e", "c", "i", "d", "a", "]">>

\* C20: a stat or section token with a carried id and a property outside the
\* set of its kind is shown as the bracketed "unknown property" diagnostic in
\* the place of the token; it is not left in the text unresolved.
C20_UnknownPropertyShownAsDiagnostic ==
    pc = "done" =>
        \A token \in UnknownPropertyTokens :
            processedValue = ShownAround(token, UnknownPropertyDiagnostic(token))

----------------------------------------------------------------------------
(* An enum whose options field is the id of another stat *)

\* the first stat is an enum that references the stat with a positive id
ReferenceSubject ==
    /\ system.stats.items[1].type = "enum"
    /\ ~system.stats.items[1].options.isArray
    /\ system.stats.items[1].options.ref > 0

ReferencedId == system.stats.items[1].options.ref

\* the positions of the stats that carry the referenced id
ReferencedPositions ==
    {k \in 1..Len(system.stats.items) : system.stats.items[k].id = ReferencedId}

\* the stat the reference finds: the first that carries the id
ReferencedStat ==
    system.stats.items[CHOOSE k \in ReferencedPositions :
                           \A j \in ReferencedPositions : k <= j]

\* the reference finds a stat that has a non-empty inline list of its own
ReferenceResolves ==
    /\ ReferencedPositions # {}
    /\ ReferencedStat.options.isArray
    /\ ReferencedStat.options.items # <<>>

\* what a value token of the first stat shows in plain text: the name of the
\* first option of the referenced stat ("Option 1" when it has no name), or
\* the placeholder with the referenced id
ReferenceShownInText ==
    IF ReferenceResolves
    THEN IF ReferencedStat.options.items[1].name # ""
         THEN Chars(ReferencedStat.options.items[1].name)
         ELSE <<"O", "p", "t", "i", "o", "n", " ", "1">>
    ELSE <<"[", "r", "e", "f", ":", " ", ToDigit(ReferencedId), "]">>

\* what it stands for inside a payload: the value of that option, or the
\* placeholder of the payload
ReferenceShownInPayload(placeholder) ==
    IF ReferenceResolves THEN <<ToDigit(ReferencedStat.options.items[1].value)>>
    ELSE <<placeholder>>

\* C21: a value token of an enum that references another stat shows the first
\* option of the referenced stat when that stat has a non-empty inline list:
\* its name in plain text, its value inside a math or dice payload.  The
\* reference is followed one level only: when the referenced stat is itself a
\* reference, is the enum itself, has no option or does not exist, the token
\* shows the placeholder "[ref: ID]" in text, "1" in math and "2" in dice, and
\* the render ends.
C21_ReferenceFollowedOneLevel ==
    pc = "done" /\ ReferenceSubject =>
        /\ valueArg = StatRef(1, ValueProp) => processedValue = ReferenceShownInText
        /\ valueArg = MathOf(StatRef(1, ValueProp) \o PlusTwo) =>
               evaluated = <<ReferenceShownInPayload("1") \o PlusTwo>>
        /\ valueArg = DiceOf(<<"1", "d">> \o StatRef(1, ValueProp)) =>
               rolled = <<(<<"1", "d">> \o ReferenceShownInPayload("2"))>>

----------------------------------------------------------------------------
(* JSON.stringify and JSON.parse.  A JSON text is a sequence of symbols:    *)
(* the punctuation, the digits and sign of a number, the quote, and the     *)
(* characters of a string between two quotes, where a name, an emoji, a     *)
(* type or a property key is one symbol.  The indentation stringify is      *)
(* asked for is white space between symbols, which parse skips: it is left  *)
(* out of the text.                                                         *)

Quote == "\""
Backslash == "\\"

\* characters stringify writes as an escape sequence
escapeOf(c) ==
    CASE c = Quote -> <<Backslash, Quote>>
      [] c = Backslash -> <<Backslash, Backslash>>
      [] c = "\n" -> <<Backslash, "n">>
      [] OTHER -> <<c>>

\* the character an escape sequence stands for
unescape(c) == IF c = "n" THEN "\n" ELSE c

\* the characters of a string value, each one written by escapeOf
RECURSIVE escaped(_)
escaped(chars) ==
    LET sequences == {k \in 1..Len(chars) : escapeOf(chars[k]) # <<chars[k]>>}
    IN IF sequences = {} THEN chars
       ELSE LET k == Least(sequences)
            IN SubSeq(chars, 1, k - 1) \o escapeOf(chars[k])
                  \o escaped(SubSeq(chars, k + 1, Len(chars)))

\* the text of a name, an emoji, a type or a key: no symbol when it is empty
symbol(name) == IF name = "" THEN <<>> ELSE <<name>>

\* a string value
quoted(chars) == <<Quote>> \o escaped(chars) \o <<Quote>>

\* "key": text, for a property that is present
member(key, text) == <<quoted(symbol(key)) \o <<":">> \o text>>

\* a property whose value is undefined is left out
memberIf(present, key, text) == IF present THEN member(key, text) ELSE <<>>

\* the texts from position lo to position hi, with a comma between two
RECURSIVE joinedBetween(_, _, _)
joinedBetween(texts, lo, hi) ==
    IF lo = hi THEN texts[lo]
    ELSE LET mid == (lo + hi) \div 2
         IN joinedBetween(texts, lo, mid) \o <<",">> \o joinedBetween(texts, mid + 1, hi)

joined(texts) == IF texts = <<>> THEN <<>> ELSE joinedBetween(texts, 1, Len(texts))

object(members) == <<"{">> \o joined(members) \o <<"}">>
array(texts) == <<"[">> \o joined(texts) \o <<"]">>

\* Localization: { default: name }
localization(name) == object(member("default", quoted(symbol(name))))

optionText(o) ==
    object(member("value", String(o.value))
             \o member("name", localization(o.name))
             \o memberIf(o.emoji # "", "emoji", quoted(symbol(o.emoji))))

conditionText(c) ==
    object(member("operator", quoted(symbol(c.operator)))
             \o member("value1", quoted(c.value1))
             \o member("value2", quoted(c.value2)))

diceText(d) ==
    object(member("expression", quoted(d.expression))
             \o memberIf(d.condition # <<>>, "condition",
                         IF d.condition = <<>> THEN <<>> ELSE conditionText(d.condition[1])))

replacementText(r) ==
    object(member("key", String(r.key))
             \o member("options", array([k \in 1..Len(r.options) |-> String(r.options[k])])))

optionsText(options) ==
    IF options.isArray
    THEN array([k \in 1..Len(options.items) |-> optionText(options.items[k])])
    ELSE String(options.ref)

statText(s) ==
    object(member("id", String(s.id))
             \o member("type", quoted(symbol(s.type)))
             \o member("name", localization(s.name))
             \o memberIf(s.emoji # "", "emoji", quoted(symbol(s.emoji)))
             \o memberIf(s.min # <<>>, "min", IF s.min = <<>> THEN <<>> ELSE String(s.min[1]))
             \o memberIf(s.max # <<>>, "max", IF s.max = <<>> THEN <<>> ELSE String(s.max[1]))
             \o memberIf(s.options # NoOptions, "options", optionsText(s.options))
             \o memberIf(s.type = "calculated" \/ s.formula # <<>>, "formula",
                         quoted(s.formula))
             \o memberIf(s.dices # <<>>, "dices",
                         array([k \in 1..Len(orEmpty(s.dices)) |->
                                   diceText(orEmpty(s.dices)[k])]))
             \o memberIf(s.replacements # <<>>, "replacements",
                         array([k \in 1..Len(orEmpty(s.replacements)) |->
                                   replacementText(orEmpty(s.replacements)[k])])))

sectionText(sec) ==
    object(member("id", String(sec.id))
             \o member("name", localization(sec.name))
             \o memberIf(sec.emoji # "", "emoji", quoted(symbol(sec.emoji)))
             \o member("preview", object(member("type", quoted(symbol(sec.previewType))))))

schemaOptionText(o) ==
    object(member("value", quoted(symbol(o.value)))
             \o member("label", quoted(symbol(o.label))))

schemaEvalText(field) ==
    object(member("name", quoted(symbol(field.name)))
             \o member("type", quoted(symbol(field.type)))
             \o member("options",
                       array([k \in 1..Len(field.options) |->
                                 schemaOptionText(field.options[k])])))

\* the keys of an object whose keys are integers, in the order stringify
\* writes them: ascending
RECURSIVE ascendingKeys(_)
ascendingKeys(keys) ==
    IF keys = {} THEN <<>>
    ELSE LET k == Least(keys) IN <<k>> \o ascendingKeys(keys \ {k})

\* "key": text with a number as the key
numberedMember(key, text) == <<quoted(String(key)) \o <<":">> \o text>>

fieldsText(fields) ==
    LET keys == ascendingKeys(DOMAIN fields)
    IN object([k \in 1..Len(keys) |->
                  numberedMember(keys[k], schemaEvalText(fields[keys[k]]))[1]])

schemaText(schema) ==
    object(member("id", String(schema.id)) \o member("fields", fieldsText(schema.fields)))

integrationsText(integrations) ==
    object(member("schemas",
                  array([k \in 1..Len(integrations.schemas) |->
                            schemaText(integrations.schemas[k])])))

configText(config) ==
    object(memberIf(config.id # <<>>, "id",
                    IF config.id = <<>> THEN <<>> ELSE String(config.id[1]))
             \o member("name", localization(config.name)))

\* the stats or sections property: an array, an object, or undefined
listText(list, itemText(_)) ==
    IF list.kind = "array" THEN array([k \in 1..Len(list.items) |-> itemText(list.items[k])])
    ELSE object(<<>>)

\* JSON.stringify(system, null, 2)
stringify(sys) ==
    object(member("config", configText(sys.config))
             \o memberIf(sys.stats.kind # "undefined", "stats", listText(sys.stats, statText))
             \o memberIf(sys.sections.kind # "undefined", "sections",
                         listText(sys.sections, sectionText))
             \o memberIf(sys.integrations # <<>>, "integrations",
                         IF sys.integrations = <<>> THEN <<>>
                         ELSE integrationsText(sys.integrations[1])))

\* What JSON.parse returns: a number, a string, an array of values or an
\* object, which is the list of its members in the order of the text.
numberValue(n) == [t |-> "number", n |-> n, s |-> <<>>, items |-> <<>>]
stringValue(chars) == [t |-> "string", n |-> 0, s |-> chars, items |-> <<>>]
arrayValue(items) == [t |-> "array", n |-> 0, s |-> <<>>, items |-> items]
objectValue(members) == [t |-> "object", n |-> 0, s |-> <<>>, items |-> members]
undefinedValue == [t |-> "undefined", n |-> 0, s |-> <<>>, items |-> <<>>]

Parsed(value, next) == [value |-> value, next |-> next]

\* the characters of a string whose opening quote is before position i
RECURSIVE parseString(_, _, _)
parseString(text, i, acc) ==
    LET k == CHOOSE j \in i..Len(text) :
                 /\ text[j] \in {Quote, Backslash}
                 /\ \A h \in i..(j - 1) : text[h] \notin {Quote, Backslash}
        plain == acc \o SubSeq(text, i, k - 1)
    IN IF text[k] = Quote THEN Parsed(plain, k + 1)
       ELSE parseString(text, k + 2, Append(plain, unescape(text[k + 1])))

parseNumber(text, i) ==
    LET first == IF text[i] = "-" THEN i + 1 ELSE i
        end == DigitRunEnd(text, first)
        n == parseInt([k \in 1..(end - first) |-> text[first + k - 1]])
    IN Parsed(numberValue(IF text[i] = "-" THEN 0 - n ELSE n), end)

RECURSIVE parseValue(_, _)
RECURSIVE parseItems(_, _, _)
RECURSIVE parseMembers(_, _, _)

\* the items of an array, from position i after "[" or after a comma
parseItems(text, i, acc) ==
    IF text[i] = "]" THEN Parsed(arrayValue(acc), i + 1)
    ELSE LET item == parseValue(text, i)
             next == IF text[item.next] = "," THEN item.next + 1 ELSE item.next
         IN parseItems(text, next, Append(acc, item.value))

\* the members of an object, from position i after "{" or after a comma
parseMembers(text, i, acc) ==
    IF text[i] = "}" THEN Parsed(objectValue(acc), i + 1)
    ELSE LET key == parseString(text, i + 1, <<>>)
             item == parseValue(text, key.next + 1)
             next == IF text[item.next] = "," THEN item.next + 1 ELSE item.next
         IN parseMembers(text, next,
                         Append(acc, [key |-> IF key.value = <<>> THEN "" ELSE key.value[1],
                                      chars |-> key.value,
                                      value |-> item.value]))

parseValue(text, i) ==
    CASE text[i] = "{" -> parseMembers(text, i + 1, <<>>)
      [] text[i] = "[" -> parseItems(text, i + 1, <<>>)
      [] text[i] = Quote ->
            LET chars == parseString(text, i + 1, <<>>)
            IN Parsed(stringValue(chars.value), chars.next)
      [] OTHER -> parseNumber(text, i)

\* JSON.parse of a text that stringify wrote
parse(text) == parseValue(text, 1).value

\* object[key]: the value of the last member with that key, undefined when
\* the object has none
get(obj, key) ==
    LET found == {k \in 1..Len(obj.items) : obj.items[k].key = key}
    IN IF obj.t # "object" \/ found = {} THEN undefinedValue
       ELSE obj.items[CHOOSE k \in found : \A j \in found : j <= k].value

\* the fields of the schema as the code reads them from the parsed document

\* value?.default
nameOf(value) ==
    LET chars == get(value, "default").s IN IF chars = <<>> THEN "" ELSE chars[1]

stringOf(value) == IF value.s = <<>> THEN "" ELSE value.s[1]

\* an optional number
optionalOf(value) == IF value.t = "number" THEN <<value.n>> ELSE <<>>

listOf(value, itemOf(_)) == [k \in 1..Len(value.items) |-> itemOf(value.items[k])]

\* an optional array
optionalListOf(value, itemOf(_)) ==
    IF value.t = "array" THEN <<listOf(value, itemOf)>> ELSE <<>>

optionOf(value) ==
    [value |-> get(value, "value").n,
     name |-> nameOf(get(value, "name")),
     emoji |-> stringOf(get(value, "emoji"))]

conditionOf(value) ==
    [operator |-> stringOf(get(value, "operator")),
     value1 |-> get(value, "value1").s,
     value2 |-> get(value, "value2").s]

diceOf(value) ==
    [expression |-> get(value, "expression").s,
     condition |-> IF get(value, "condition").t = "object"
                   THEN <<conditionOf(get(value, "condition"))>> ELSE <<>>]

numberOf(value) == value.n

replacementOf(value) ==
    [key |-> get(value, "key").n, options |-> listOf(get(value, "options"), numberOf)]

optionsOf(value) ==
    CASE value.t = "array" -> InlineOptions(listOf(value, optionOf))
      [] value.t = "number" -> ReferenceOptions(value.n)
      [] OTHER -> NoOptions

statOf(value) ==
    [id |-> get(value, "id").n,
     type |-> stringOf(get(value, "type")),
     name |-> nameOf(get(value, "name")),
     emoji |-> stringOf(get(value, "emoji")),
     min |-> optionalOf(get(value, "min")),
     max |-> optionalOf(get(value, "max")),
     options |-> optionsOf(get(value, "options")),
     formula |-> get(value, "formula").s,
     dices |-> optionalListOf(get(value, "dices"), diceOf),
     replacements |-> optionalListOf(get(value, "replacements"), replacementOf)]

sectionOf(value) ==
    [id |-> get(value, "id").n,
     name |-> nameOf(get(value, "name")),
     emoji |-> stringOf(get(value, "emoji")),
     previewType |-> stringOf(get(get(value, "preview"), "type"))]

schemaOptionOf(value) ==
    SchemaOption(stringOf(get(value, "value")), stringOf(get(value, "label")))

schemaEvalOf(value) ==
    [name |-> stringOf(get(value, "name")),
     type |-> stringOf(get(value, "type")),
     options |-> listOf(get(value, "options"), schemaOptionOf)]

\* the fields of a schema: the value of the last member with each key
fieldsOf(value) ==
    [key \in {parseInt(value.items[k].chars) : k \in 1..Len(value.items)} |->
        schemaEvalOf(value.items[
            CHOOSE k \in 1..Len(value.items) :
                /\ parseInt(value.items[k].chars) = key
                /\ \A j \in 1..Len(value.items) :
                      parseInt(value.items[j].chars) = key => j <= k].value)]

schemaOf(value) == NexusSchema(get(value, "id").n, fieldsOf(get(value, "fields")))

integrationsOf(value) ==
    IF value.t = "object" THEN <<Integrations(listOf(get(value, "schemas"), schemaOf))>>
    ELSE <<>>

arrayOf(value, itemOf(_)) ==
    CASE value.t = "array" -> ArrayValue(listOf(value, itemOf))
      [] value.t = "undefined" -> NotArrayValue("undefined")
      [] OTHER -> NotArrayValue("object")

systemOf(value) ==
    [config |-> [id |-> optionalOf(get(get(value, "config"), "id")),
                 name |-> nameOf(get(get(value, "config"), "name"))],
     stats |-> arrayOf(get(value, "stats"), statOf),
     sections |-> arrayOf(get(value, "sections"), sectionOf),
     integrations |-> integrationsOf(get(value, "integrations"))]

\* function clone<T>(v: T): T { return JSON.parse(JSON.stringify(v)); }
clone(sys) == systemOf(parse(stringify(sys)))

----------------------------------------------------------------------------
(* The editor (RPGSystemBuilder): the schema it holds, the state of the     *)
(* components it renders and the handlers of its tabs.  pc names the        *)
(* handler that ran last.  Tabs mounts the content of the selected tab      *)
(* only, and a Collapsible mounts its content while it is open; a component *)
(* keeps its state while the same component stays at its position, and the  *)
(* cards of a tab are keyed by their index.                                 *)

\* operations performed in one editor session
MaxEdits == 2

\* list.reduce((m, x) => Math.max(m, x.id), 0)
RECURSIVE maxId(_, _)
maxId(list, m) ==
    IF list = <<>> THEN m
    ELSE maxId(Tail(list), IF Head(list).id > m THEN Head(list).id ELSE m)

\* ids handed out by the length of the list
nextIdByLength(list) == Len(list) + 1

\* function nextId(list): (max || 0) + 1
nextId(list) == LET m == maxId(list, 0) IN (IF m = 0 THEN 0 ELSE m) + 1

Stats == system.stats.items
Sections == system.sections.items

\* a schema of the editor: useState<RPGSystem>({ ..., integrations: { schemas: [] } })
EditorSystem(stats, sections) ==
    [System(DefaultConfig, ArrayValue(stats), ArrayValue(sections)) EXCEPT
        !.integrations = <<Integrations(<<>>)>>]

\* the stat addStat builds for a kind
newStat(id, kind) ==
    CASE kind = "numeric" -> NumericStat(id, "Novo Stat", <<0>>, <<10>>)
      [] kind = "enum" -> EnumStat(id, "Novo Stat", InlineOptions(<<>>))
      [] kind = "boolean" -> BooleanStat(id, "Novo Stat")
      [] kind = "string" -> StringStat(id, "Novo Stat")
      [] kind = "calculated" -> CalculatedStat(id, "Novo Stat", <<>>)

StatKinds == {"numeric", "enum", "boolean", "string", "calculated"}

\* list.splice(index, 1), index 0-based
spliceOut(list, index) ==
    [k \in 1..(Len(list) - 1) |-> IF k <= index THEN list[k] ELSE list[k + 1]]

\* list.splice(index, 0, item), index 0-based
spliceIn(list, index, item) ==
    [k \in 1..(Len(list) + 1) |->
        IF k <= index THEN list[k] ELSE IF k = index + 1 THEN item ELSE list[k - 1]]

\* const tmp = list[index]; list[index] = list[j]; list[j] = tmp, 0-based
swapped(list, index, j) ==
    [list EXCEPT ![index + 1] = list[j + 1], ![j + 1] = list[index + 1]]

\* `${originalStat.name?.default || 'Stat'} (Cópia)`
copyName(name) == (IF name = "" THEN "Stat" ELSE name) \o " (Cópia)"

\* the session has an operation left
Editing == edits < MaxEdits

\* stat cards, and section editors, open at a time
MaxOpenCards == 1

\* another card of the list may be opened
CardLeft(cards) == Cardinality({k \in 1..Len(cards) : cards[k]}) < MaxOpenCards

\* the files written, the reads and the clipboard writes under way
transferVars == <<exported, reading, copying, clipboard>>

\* handler ran
Handled(handler) ==
    /\ pc' = handler
    /\ UNCHANGED <<formulaArg, statIdArg, dependencies, cyclic, errors, threw, previewVars,
                   partVars>>

\* an operation of the session took place in handler
Performed(handler) ==
    /\ edits' = edits + 1
    /\ Handled(handler)

\* The components mounted after a render.

TabNames == {"config", "stats", "sections", "integrations", "preview"}

\* StatsTab: <Card key={i}> with <Collapsible defaultOpen={false}>; was holds
\* the cards before the render
cardsOf(tab, stats, was) ==
    IF tab = "stats" THEN [k \in 1..Len(stats) |-> k <= Len(was) /\ was[k]] ELSE <<>>

\* StatNumericEditor: useState(value.min !== undefined || value.max !== undefined)
initialShowLimits(value) == value.min # <<>> \/ value.max # <<>>

\* showLimits of the StatNumericEditor in each card: the state it had when a
\* StatNumericEditor was mounted in the card before the render, its initial
\* state when the render mounts it, none when the card is closed or holds a
\* stat of another type
showLimitsOf(cards, stats, was) ==
    [k \in 1..Len(cards) |->
        IF ~(cards[k] /\ stats[k].type = "numeric") THEN <<>>
        ELSE IF k <= Len(was) /\ was[k] # <<>> THEN was[k]
        ELSE <<initialShowLimits(stats[k])>>]

\* StatEnumEditor: useState(new Set([0]))
initialExpandedOptions(value) == {0}

\* expandedOptions of the StatEnumEditor in each card, kept as showLimits is
expandedOptionsOf(cards, stats, was) ==
    [k \in 1..Len(cards) |->
        IF ~(cards[k] /\ stats[k].type = "enum") THEN <<>>
        ELSE IF k <= Len(was) /\ was[k] # <<>> THEN was[k]
        ELSE <<initialExpandedOptions(stats[k])>>]

\* StatNumericEditor, StatEnumEditor, StatBooleanEditor and
\* StatCalculatedEditor render a DiceEditor, StatStringEditor renders none
rendersDiceEditor(value) == value.type \in {"numeric", "enum", "boolean", "calculated"}

\* DiceEditor: useState(false) and useState<number>(-1)
initialDiceEditor == [showDiceEditor |-> FALSE, editingDiceIndex |-> -1]

\* the state of the DiceEditor in each card: the state it had when the editor
\* of a stat of the same type was mounted in the card before the render, its
\* initial state when the render mounts it, none when the card is closed or
\* holds a string stat
diceEditorOf(cards, stats, was, before) ==
    [k \in 1..Len(cards) |->
        IF ~(cards[k] /\ rendersDiceEditor(stats[k])) THEN <<>>
        ELSE IF /\ k <= Len(was)
                /\ was[k] # <<>>
                /\ k <= Len(before)
                /\ before[k].type = stats[k].type
             THEN was[k]
        ELSE <<initialDiceEditor>>]

\* SectionsTab: <Card key={i}> with a SectionEditor, useState(false)
sectionEditorsOf(tab, sections, was) ==
    IF tab = "sections" THEN [k \in 1..Len(sections) |-> k <= Len(was) /\ was[k]]
    ELSE <<>>

\* the render that follows a step: the tab selected, and the state the
\* components held before it
Render(tab, cards, limits, expanded, dice, sectionEditors) ==
    /\ selectedTab' = tab
    /\ opened' = cardsOf(tab, system'.stats.items, cards)
    /\ showLimits' = showLimitsOf(opened', system'.stats.items, limits)
    /\ expandedOptions' = expandedOptionsOf(opened', system'.stats.items, expanded)
    /\ diceEditor' = diceEditorOf(opened', system'.stats.items, dice, system.stats.items)
    /\ isOpen' = sectionEditorsOf(tab, system'.sections.items, sectionEditors)

\* the render after a handler that sets no state of a component
Rerendered == Render(selectedTab, opened, showLimits, expandedOptions, diceEditor, isOpen)

\* the editor before its first operation, on a tab and with the cards of
\* StatsTab open or closed
EditorOn(tab, cards) ==
    /\ exported = <<>>
    /\ toast = ""
    /\ edits = 0
    /\ reading = <<>>
    /\ copying = <<>>
    /\ clipboard = <<>>
    /\ selectedTab = tab
    /\ opened = cardsOf(tab, Stats, cards)
    /\ showLimits = showLimitsOf(opened, Stats, <<>>)
    /\ expandedOptions = expandedOptionsOf(opened, Stats, <<>>)
    /\ diceEditor = diceEditorOf(opened, Stats, <<>>, <<>>)
    /\ isOpen = sectionEditorsOf(tab, Sections, <<>>)
    /\ newFieldKey = IF tab = "integrations" THEN 1 ELSE 0

\* the card at index open, the other cards of the list closed
OneOpen(stats, index) == [k \in 1..Len(stats) |-> k = index + 1]

\* Tabs onValueChange={setSelectedTab}, for a tab that is not the selected one
SelectTab ==
    /\ \E tab \in TabNames \ {selectedTab} :
          /\ UNCHANGED system
          /\ Render(tab, <<>>, <<>>, <<>>, <<>>, <<>>)
          /\ newFieldKey' = IF tab = "integrations" THEN 1 ELSE 0
    /\ Handled("selectTab")
    /\ UNCHANGED <<transferVars, toast, edits>>

\* the CollapsibleTrigger of a stat card
ToggleCard ==
    /\ selectedTab = "stats"
    /\ \E index \in 0..(Len(Stats) - 1) :
          /\ opened[index + 1] \/ CardLeft(opened)
          /\ UNCHANGED system
          /\ Render(selectedTab, [opened EXCEPT ![index + 1] = ~opened[index + 1]],
                    showLimits, expandedOptions, diceEditor, isOpen)
    /\ Handled("toggleCard")
    /\ UNCHANGED <<transferVars, toast, edits, newFieldKey>>

\* addStat(kind)
AddStat ==
    /\ Editing
    /\ selectedTab = "stats"
    /\ \E kind \in StatKinds :
          system' = [system EXCEPT
                        !.stats.items = Append(Stats, newStat(nextId(Stats), kind))]
    /\ Render("stats", opened, showLimits, expandedOptions, diceEditor, isOpen)
    /\ Performed("addStat")
    /\ UNCHANGED <<transferVars, toast, newFieldKey>>

\* updateStat(index, v), index 0-based: the schema handed to setSystem
updateStat(index, v) == [clone(system) EXCEPT !.stats.items[index + 1] = v]

\* removeStat(index)
RemoveStat ==
    /\ Editing
    /\ selectedTab = "stats"
    /\ \E copy \in {clone(system)} :
          \E index \in 0..(Len(Stats) - 1) :
             system' = [copy EXCEPT !.stats.items = spliceOut(copy.stats.items, index)]
    /\ Rerendered
    /\ Performed("removeStat")
    /\ UNCHANGED <<transferVars, toast, newFieldKey>>

\* duplicateStat(index)
DuplicateStat ==
    /\ Editing
    /\ selectedTab = "stats"
    /\ \E copy \in {clone(system)} :
          \E index \in 0..(Len(Stats) - 1) :
             LET originalStat == copy.stats.items[index + 1]
                 duplicatedStat == [originalStat EXCEPT
                                       !.id = nextId(copy.stats.items),
                                       !.name = copyName(originalStat.name)]
             IN system' = [copy EXCEPT
                              !.stats.items = spliceIn(copy.stats.items, index + 1,
                                                       duplicatedStat)]
    /\ Rerendered
    /\ Performed("duplicateStat")
    /\ UNCHANGED <<transferVars, toast, newFieldKey>>

\* moveStat(index, dir): returns without a change when the neighbour is
\* outside the list
MoveStat ==
    /\ Editing
    /\ selectedTab = "stats"
    /\ \E copy \in {clone(system)} :
          \E index \in 0..(Len(Stats) - 1), dir \in {-1, 1} :
             /\ ~(index + dir < 0 \/ index + dir >= Len(copy.stats.items))
             /\ system' = [copy EXCEPT
                              !.stats.items = swapped(copy.stats.items, index, index + dir)]
    /\ Rerendered
    /\ Performed("moveStat")
    /\ UNCHANGED <<transferVars, toast, newFieldKey>>

\* The stat editors.  Each handler builds its value from the stat it was
\* rendered with, { ...value, ...p }, and hands it to updateStat(index, v).

\* the editor of the stat at index is mounted
StatEditorAt(index) == selectedTab = "stats" /\ opened[index + 1]

\* names typed into the name field
EditedNames == {""}

\* emojis clicked in the emoji picker
EditedEmojis == {"E"}

EmojiToast == "Emoji selecionado!"

\* BaseStatFields: onPatch({ name: v })
PatchStatName ==
    /\ Editing
    /\ \E index \in 0..(Len(Stats) - 1), name \in EditedNames :
          /\ StatEditorAt(index)
          /\ name # Stats[index + 1].name
          /\ system' = updateStat(index, [Stats[index + 1] EXCEPT !.name = name])
    /\ Rerendered
    /\ Performed("patchStatName")
    /\ UNCHANGED <<transferVars, toast, newFieldKey>>

\* BaseStatFields: onPatch({ emoji: v }) from CustomEmojiPicker.handleEmojiClick
PatchStatEmoji ==
    /\ Editing
    /\ \E index \in 0..(Len(Stats) - 1), emoji \in EditedEmojis :
          /\ StatEditorAt(index)
          /\ system' = updateStat(index,
                                  [Stats[index + 1] EXCEPT !.emoji = emoji])
    /\ toast' = EmojiToast
    /\ Rerendered
    /\ Performed("patchStatEmoji")
    /\ UNCHANGED <<transferVars, newFieldKey>>

\* StatNumericEditor.handleLimitsToggle(enabled), after setShowLimits(enabled)
handleLimitsToggle(value, enabled) ==
    IF ~enabled THEN [value EXCEPT !.min = <<>>, !.max = <<>>]
    ELSE [value EXCEPT !.min = IF value.min = <<>> THEN <<0>> ELSE value.min,
                       !.max = IF value.max = <<>> THEN <<10>> ELSE value.max]

\* the Switch checked={showLimits} hands over the opposite of showLimits
HandleLimitsToggle ==
    /\ Editing
    /\ \E index \in 0..(Len(Stats) - 1) :
          /\ StatEditorAt(index)
          /\ Stats[index + 1].type = "numeric"
          /\ LET enabled == ~showLimits[index + 1][1]
             IN /\ system' = updateStat(index,
                                        handleLimitsToggle(Stats[index + 1], enabled))
                /\ Render(selectedTab, opened,
                          [showLimits EXCEPT ![index + 1] = <<enabled>>],
                          expandedOptions, diceEditor, isOpen)
    /\ Performed("handleLimitsToggle")
    /\ UNCHANGED <<transferVars, toast, newFieldKey>>

\* numbers typed into the limit fields
EditedLimits == {20}

\* value.min ?? fallback, what a limit field shows
shown(limit, fallback) == IF limit = <<>> THEN fallback ELSE limit[1]

\* StatNumericEditor: patch({ min: Number(e.target.value) }); the field is
\* rendered while showLimits holds
PatchMin ==
    /\ Editing
    /\ \E index \in 0..(Len(Stats) - 1), n \in EditedLimits :
          /\ StatEditorAt(index)
          /\ Stats[index + 1].type = "numeric"
          /\ showLimits[index + 1][1]
          /\ n # shown(Stats[index + 1].min, 0)
          /\ system' = updateStat(index, [Stats[index + 1] EXCEPT !.min = <<n>>])
    /\ Rerendered
    /\ Performed("patchMin")
    /\ UNCHANGED <<transferVars, toast, newFieldKey>>

\* StatNumericEditor: patch({ max: Number(e.target.value) })
PatchMax ==
    /\ Editing
    /\ \E index \in 0..(Len(Stats) - 1), n \in EditedLimits :
          /\ StatEditorAt(index)
          /\ Stats[index + 1].type = "numeric"
          /\ showLimits[index + 1][1]
          /\ n # shown(Stats[index + 1].max, 10)
          /\ system' = updateStat(index, [Stats[index + 1] EXCEPT !.max = <<n>>])
    /\ Rerendered
    /\ Performed("patchMax")
    /\ UNCHANGED <<transferVars, toast, newFieldKey>>

\* formulas built in the math editor: no reference, or a reference to the
\* value of a stat of the list
EditorFormulas ==
    {<<>>} \cup {StatToken(String(Stats[k].id), ValueProp) : k \in 1..Len(Stats)}

\* texts typed into the formula field: the same, and a text of a quote and a
\* backslash
TypedFormulas == EditorFormulas \cup {<<Quote, Backslash>>}

CircularToast == "Esta fórmula criaria uma dependência circular!"
FormulaToast == "Fórmula atualizada!"
ImportedToast == "Importado com sucesso!"
ImportFailedToast == "Falha ao importar JSON"
CopiedToast == "JSON copiado para a área de transferência"
CopyFailedToast == "Não foi possível copiar o JSON"

\* StatCalculatedEditor.confirmFormula(formula)
ConfirmFormula ==
    /\ Editing
    /\ \E index \in 0..(Len(Stats) - 1), text \in EditorFormulas :
          /\ StatEditorAt(index)
          /\ Stats[index + 1].type = "calculated"
          /\ IF hasCircularDependency(Stats[index + 1].id, text, Stats)
             THEN /\ toast' = CircularToast
                  /\ UNCHANGED system
             ELSE /\ system' = updateStat(index,
                                          [Stats[index + 1] EXCEPT !.formula = text])
                  /\ toast' = FormulaToast
    /\ Rerendered
    /\ Performed("confirmFormula")
    /\ UNCHANGED <<transferVars, newFieldKey>>

\* StatCalculatedEditor, the formula field: patch({ formula: e.target.value })
FormulaInput ==
    /\ Editing
    /\ \E index \in 0..(Len(Stats) - 1), text \in TypedFormulas :
          /\ StatEditorAt(index)
          /\ Stats[index + 1].type = "calculated"
          /\ text # Stats[index + 1].formula
          /\ system' = updateStat(index, [Stats[index + 1] EXCEPT !.formula = text])
    /\ Rerendered
    /\ Performed("formulaInput")
    /\ UNCHANGED <<transferVars, toast, newFieldKey>>

\* addSection()
AddSection ==
    /\ Editing
    /\ selectedTab = "sections"
    /\ system' = [system EXCEPT
                     !.sections.items =
                         Append(Sections, Section(nextId(Sections), "Nova Seção", "string"))]
    /\ Render("sections", opened, showLimits, expandedOptions, diceEditor, isOpen)
    /\ Performed("addSection")
    /\ UNCHANGED <<transferVars, toast, newFieldKey>>

\* updateSection(index, v), index 0-based: the schema handed to setSystem
updateSection(index, v) == [clone(system) EXCEPT !.sections.items[index + 1] = v]

\* SectionEditor: <Collapsible open={isOpen} onOpenChange={setIsOpen}>
ToggleSection ==
    /\ selectedTab = "sections"
    /\ \E index \in 0..(Len(Sections) - 1) :
          /\ isOpen[index + 1] \/ CardLeft(isOpen)
          /\ UNCHANGED system
          /\ Render(selectedTab, opened, showLimits, expandedOptions, diceEditor,
                    [isOpen EXCEPT ![index + 1] = ~isOpen[index + 1]])
    /\ Handled("toggleSection")
    /\ UNCHANGED <<transferVars, toast, edits, newFieldKey>>

\* the content of the SectionEditor at index is mounted
SectionEditorAt(index) == selectedTab = "sections" /\ isOpen[index + 1]

\* SectionEditor: patch({ name: v })
PatchSectionName ==
    /\ Editing
    /\ \E index \in 0..(Len(Sections) - 1), name \in EditedNames :
          /\ SectionEditorAt(index)
          /\ name # Sections[index + 1].name
          /\ system' = updateSection(index,
                                     [Sections[index + 1] EXCEPT !.name = name])
    /\ Rerendered
    /\ Performed("patchSectionName")
    /\ UNCHANGED <<transferVars, toast, newFieldKey>>

\* SectionEditor: patch({ emoji: v }) from CustomEmojiPicker.handleEmojiClick
PatchSectionEmoji ==
    /\ Editing
    /\ \E index \in 0..(Len(Sections) - 1), emoji \in EditedEmojis :
          /\ SectionEditorAt(index)
          /\ system' = updateSection(index,
                                     [Sections[index + 1] EXCEPT !.emoji = emoji])
    /\ toast' = EmojiToast
    /\ Rerendered
    /\ Performed("patchSectionEmoji")
    /\ UNCHANGED <<transferVars, newFieldKey>>

PreviewTypes == {"string", "img"}

\* SectionEditor, the Select of the preview type:
\* patch({ preview: { ...value.preview, type: val } })
PatchSectionPreviewType ==
    /\ Editing
    /\ \E index \in 0..(Len(Sections) - 1), val \in PreviewTypes :
          /\ SectionEditorAt(index)
          /\ val # Sections[index + 1].previewType
          /\ system' = updateSection(index,
                                     [Sections[index + 1] EXCEPT !.previewType = val])
    /\ Rerendered
    /\ Performed("patchSectionPreviewType")
    /\ UNCHANGED <<transferVars, toast, newFieldKey>>

\* removeSection(index)
RemoveSection ==
    /\ Editing
    /\ selectedTab = "sections"
    /\ \E copy \in {clone(system)} :
          \E index \in 0..(Len(Sections) - 1) :
             system' = [copy EXCEPT
                           !.sections.items = spliceOut(copy.sections.items, index)]
    /\ Rerendered
    /\ Performed("removeSection")
    /\ UNCHANGED <<transferVars, toast, newFieldKey>>

\* moveSection(index, dir); the button is disabled at the end of the list it
\* points to
MoveSection ==
    /\ Editing
    /\ selectedTab = "sections"
    /\ \E copy \in {clone(system)} :
          \E index \in 0..(Len(Sections) - 1), dir \in {-1, 1} :
             /\ ~(index + dir < 0 \/ index + dir >= Len(copy.sections.items))
             /\ system' = [copy EXCEPT
                              !.sections.items =
                                  swapped(copy.sections.items, index, index + dir)]
    /\ Rerendered
    /\ Performed("moveSection")
    /\ UNCHANGED <<transferVars, toast, newFieldKey>>

\* ConfigTab: patch({ name: v }) handed to setSystem({ ...system, config: v })
PatchConfigName ==
    /\ Editing
    /\ selectedTab = "config"
    /\ \E name \in EditedNames :
          /\ name # system.config.name
          /\ system' = [system EXCEPT !.config.name = name]
    /\ Rerendered
    /\ Performed("patchConfigName")
    /\ UNCHANGED <<transferVars, toast, newFieldKey>>

\* exportJson(): download(name, JSON.stringify(system, null, 2))
ExportJson ==
    /\ Editing
    /\ exported' = Append(exported, stringify(system))
    /\ Performed("exportJson")
    /\ UNCHANGED <<system, toast, selectedTab, opened, showLimits, expandedOptions, diceEditor,
                   isOpen, newFieldKey, reading, copying, clipboard>>

\* copyJson(), up to the await: navigator.clipboard.writeText(text) is under
\* way
CopyJson ==
    /\ Editing
    /\ copying' = Append(copying, stringify(system))
    /\ Performed("copyJson")
    /\ UNCHANGED <<system, toast, selectedTab, opened, showLimits, expandedOptions, diceEditor,
                   isOpen, newFieldKey, reading, exported, clipboard>>

\* copyJson() after the await: the write is done, or the promise was
\* rejected
CopySettled ==
    /\ \E i \in 1..Len(copying), written \in BOOLEAN :
          /\ copying' = spliceOut(copying, i - 1)
          /\ clipboard' = IF written THEN <<copying[i]>> ELSE clipboard
          /\ toast' = IF written THEN CopiedToast ELSE CopyFailedToast
    /\ Handled("copySettled")
    /\ UNCHANGED <<system, edits, selectedTab, opened, showLimits, expandedOptions, diceEditor,
                   isOpen, newFieldKey, reading, exported>>

\* a file that holds no text: JSON.parse("") throws a SyntaxError
EmptyFile == <<>>

\* a file of a schema written before the editor had integrations
OlderFile ==
    stringify(System(DefaultConfig, ArrayValue(<<NumericStat(7, "Forca", <<>>, <<>>)>>),
                     ArrayValue(<<>>)))

\* the files the file dialog offers: the files exportJson wrote, and two
\* other files
Files == {exported[k] : k \in 1..Len(exported)} \cup {EmptyFile, OlderFile}

\* JSON.parse throws for the text
SyntaxError(text) == text = EmptyFile

\* importJson(file): reader.readAsText(file) starts the read
ImportJson ==
    /\ Editing
    /\ \E file \in Files : reading' = Append(reading, file)
    /\ Performed("importJson")
    /\ UNCHANGED <<system, toast, selectedTab, opened, showLimits, expandedOptions, diceEditor,
                   isOpen, newFieldKey, exported, copying, clipboard>>

\* reader.onload of a read that was under way
ReaderOnload ==
    /\ \E i \in 1..Len(reading) :
          /\ reading' = spliceOut(reading, i - 1)
          /\ IF SyntaxError(reading[i])
             THEN /\ toast' = ImportFailedToast
                  /\ UNCHANGED system
             ELSE /\ system' = systemOf(parse(reading[i]))
                  /\ toast' = ImportedToast
    /\ Rerendered
    /\ Handled("readerOnload")
    /\ UNCHANGED <<edits, newFieldKey, exported, copying, clipboard>>

\* the editor as RPGSystemBuilder mounts it
Init ==
    /\ pc = "open"
    /\ system = EditorSystem(DefaultStats, DefaultSections)
    /\ EditorOn("config", <<>>)
    /\ NoParts
    /\ NoPreview
    /\ formulaArg = <<>>
    /\ statIdArg = 0
    /\ dependencies = <<>>
    /\ cyclic = FALSE
    /\ errors = <<>>
    /\ threw = FALSE

Next ==
    \/ SelectTab
    \/ ToggleCard
    \/ AddStat
    \/ RemoveStat
    \/ DuplicateStat
    \/ MoveStat
    \/ PatchStatName
    \/ PatchStatEmoji
    \/ HandleLimitsToggle
    \/ PatchMin
    \/ PatchMax
    \/ ConfirmFormula
    \/ FormulaInput
    \/ AddSection
    \/ ToggleSection
    \/ PatchSectionName
    \/ PatchSectionEmoji
    \/ PatchSectionPreviewType
    \/ RemoveSection
    \/ MoveSection
    \/ PatchConfigName

Spec == Init /\ [][Next]_vars


----------------------------------------------------------------------------
(* Ids in an editor session *)

Ids(list) == {list[k].id : k \in 1..Len(list)}

PairwiseDistinctIds(list) ==
    \A i, j \in 1..Len(list) : list[i].id = list[j].id => i = j

\* the positions of after whose item was put into before by the step: without
\* it, after is before
InsertedAt(before, after) ==
    {p \in 1..Len(after) : Len(after) = Len(before) + 1 /\ spliceOut(after, p - 1) = before}

\* the step put one item into the list, and its id is carried by no item of
\* the list it was put into
AssignedFreshId(before, after) ==
    /\ InsertedAt(before, after) # {}
    /\ \A p \in InsertedAt(before, after) : after[p].id \notin Ids(before)

\* C16: in every state reached from the initial schema by the stat and section
\* operations of the editor, no two stats carry the same id and no two sections
\* carry the same id; and the id that addStat, duplicateStat or addSection
\* gives the new item is carried by no item present when it is assigned.
C16_IdsDistinctAndFresh ==
    /\ [](PairwiseDistinctIds(Stats) /\ PairwiseDistinctIds(Sections))
    /\ [][/\ pc' \in {"addStat", "duplicateStat"} =>
                AssignedFreshId(Stats, system'.stats.items)
          /\ pc' = "addSection" => AssignedFreshId(Sections, system'.sections.items)]_vars

\* a stat was added or duplicated after the stat with the lowest id had been
\* removed: the list is as long as before, and its highest id is above its
\* length
C16_Witness ==
    /\ pc \in {"addStat", "duplicateStat"}
    /\ edits = 2
    /\ Len(Stats) = Len(DefaultStats)
    /\ 1 \notin Ids(Stats)
    /\ maxId(Stats, 0) = Len(Stats) + 1
    /\ PairwiseDistinctIds(Stats)

----------------------------------------------------------------------------
(* Formula edits in an editor session *)

\* the stat at position k kept its id and type, and its stored formula changed
FormulaChangedAt(k) ==
    /\ k <= Len(system'.stats.items)
    /\ system'.stats.items[k].id = Stats[k].id
    /\ system'.stats.items[k].formula # Stats[k].formula

\* the dependency graph of the schema after the step
GraphAfter(k) ==
    DependencyGraph(Stats[k].id, system'.stats.items[k].formula, system'.stats.items)

\* C11: a formula edit on a calculated stat, through the math editor's confirm
\* or through the formula text field, that would introduce a circular
\* dependency leaves the stored formula unchanged: no edit stores a formula
\* with which the edited stat lies on a dependency cycle.
C11_CyclicFormulaEditRejected ==
    [][pc' \in {"confirmFormula", "formulaInput"} =>
          \A k \in 1..Len(Stats) :
              FormulaChangedAt(k) => ~OnCycle(GraphAfter(k), Stats[k].id)]_vars

----------------------------------------------------------------------------
(* DiceEditor and ReplacementEditor, rendered inside the editor of a stat:  *)
(* what they hand to onChange goes through patch({ dices: v }) or           *)
(* patch({ replacements: v }) to updateStat(index, v).                      *)

\* operations on the dice and replacements of a stat in one session
MaxDiceEdits == 4

Dice(expression, condition) == [expression |-> expression, condition |-> condition]
Condition(operator, value1, value2) ==
    [operator |-> operator, value1 |-> value1, value2 |-> value2]
Replacement(key, options) == [key |-> key, options |-> options]

\* the while loop over /<stat:(\d+):value>/g of getStatsUsedInDices
RECURSIVE usedIn(_, _, _)
usedIn(text, lastIndex, usedStatIds) ==
    LET match == regexExec(text, lastIndex)
    IN IF ~match.found THEN usedStatIds
       ELSE usedIn(text, match.lastIndex, usedStatIds \cup {parseInt(match.group)})

\* ReplacementEditor.getStatsUsedInDices: the ids in the expressions and the
\* condition values of the dice
RECURSIVE getStatsUsedInDices(_, _)
getStatsUsedInDices(dices, usedStatIds) ==
    IF dices = <<>> THEN usedStatIds
    ELSE LET dice == Head(dices)
             inExpression == usedIn(dice.expression, 0, usedStatIds)
             inCondition ==
                 IF dice.condition = <<>> THEN inExpression
                 ELSE usedIn(dice.condition[1].value2, 0,
                             usedIn(dice.condition[1].value1, 0, inExpression))
         IN getStatsUsedInDices(Tail(dices), inCondition)

\* stats.filter(...): the positions kept
Filter(list, Keep(_)) ==
    LET kept == {k \in 1..Len(list) : Keep(list[k])}
        RECURSIVE ascending(_)
        ascending(rest) ==
            IF rest = {} THEN <<>>
            ELSE LET k == CHOOSE k \in rest : \A j \in rest : k <= j
                 IN <<list[k]>> \o ascending(rest \ {k})
    IN ascending(kept)

NotString(stat) == stat.type \in {"numeric", "boolean", "enum", "calculated"}

\* the keys offered whatever the dice use
allKeyStats(stats, dices) == Filter(stats, NotString)

\* ReplacementEditor.validKeyStats: the stats the dice use, strings left out
validKeyStats(stats, dices) ==
    LET usedStatIds == getStatsUsedInDices(dices, {})
        Valid(stat) == stat.id \in usedStatIds /\ NotString(stat)
    IN Filter(stats, Valid)

\* ReplacementEditor.validOptionStats
validOptionStats(stats) == Filter(stats, NotString)

\* the DiceEditor and the ReplacementEditor of the stat at index are mounted:
\* every stat editor but StatStringEditor renders them
DiceEditorAt(index) ==
    /\ StatEditorAt(index)
    /\ rendersDiceEditor(Stats[index + 1])

\* the DiceEditor of the card at index after it set its state
withDiceEditor(index, show, editing) ==
    [diceEditor EXCEPT
        ![index + 1] = <<[showDiceEditor |-> show, editingDiceIndex |-> editing]>>]

DiceEditing == edits < MaxDiceEdits

DiceToast == "Expressão de dados atualizada!"

\* expressions confirmed in the dice editor
DiceExpressions ==
    { <<"1", "d", "6">>,
      <<"1", "d", "2", "0", "+">> \o StatToken(<<"2">>, ValueProp),
      StatToken(<<"1">>, ValueProp) \o <<"d", "6", "+">> \o StatToken(<<"2">>, ValueProp) }

\* texts typed into the value fields of a condition
ConditionValues == { <<"5">>, StatToken(<<"1">>, ValueProp) }

\* patch({ dices: v }) handed to updateStat
withDices(index, v) ==
    updateStat(index, [Stats[index + 1] EXCEPT !.dices = <<v>>])

\* patch({ replacements: v }) handed to updateStat
withReplacements(index, v) ==
    updateStat(index, [Stats[index + 1] EXCEPT !.replacements = <<v>>])

\* DiceEditor.add: the new dice, and the expression editor opened on it
DiceAdd ==
    /\ DiceEditing
    /\ \E index \in 0..(Len(Stats) - 1) :
          LET dices == orEmpty(Stats[index + 1].dices)
          IN /\ DiceEditorAt(index)
             /\ system' = withDices(index, Append(dices, Dice(<<"1", "d", "2", "0">>, <<>>)))
             /\ Render(selectedTab, opened, showLimits, expandedOptions,
                       withDiceEditor(index, TRUE, Len(dices)), isOpen)
    /\ Performed("diceAdd")
    /\ UNCHANGED <<transferVars, toast, newFieldKey>>

\* DiceEditor.remove(i); its button is disabled while the list has one dice
DiceRemove ==
    /\ DiceEditing
    /\ \E index \in 0..(Len(Stats) - 1) :
          LET dices == orEmpty(Stats[index + 1].dices)
          IN /\ DiceEditorAt(index)
             /\ ~(Len(dices) = 1)
             /\ \E i \in 0..(Len(dices) - 1) :
                   system' = withDices(index, spliceOut(dices, i))
    /\ Rerendered
    /\ Performed("diceRemove")
    /\ UNCHANGED <<transferVars, toast, newFieldKey>>

\* DiceEditor.openDiceEditor(index), from the expression button of a dice
OpenDiceEditor ==
    /\ \E index \in 0..(Len(Stats) - 1) :
          /\ DiceEditorAt(index)
          /\ \E i \in 0..(Len(orEmpty(Stats[index + 1].dices)) - 1) :
                /\ UNCHANGED system
                /\ Render(selectedTab, opened, showLimits, expandedOptions,
                          withDiceEditor(index, TRUE, i), isOpen)
    /\ Handled("openDiceEditor")
    /\ UNCHANGED <<transferVars, toast, edits, newFieldKey>>

\* the Cancelar button of the expression editor: setShowDiceEditor(false)
CancelDiceEditor ==
    /\ \E index \in 0..(Len(Stats) - 1) :
          /\ DiceEditorAt(index)
          /\ diceEditor[index + 1][1].showDiceEditor
          /\ UNCHANGED system
          /\ Render(selectedTab, opened, showLimits, expandedOptions,
                    withDiceEditor(index, FALSE, diceEditor[index + 1][1].editingDiceIndex),
                    isOpen)
    /\ Handled("cancelDiceEditor")
    /\ UNCHANGED <<transferVars, toast, edits, newFieldKey>>

\* DiceEditor.confirmDiceExpression(expression), from the expression editor
\* while it is shown: set(editingDiceIndex, { expression }) when the index is
\* one of the list, and the editor closed and the toast in either case
ConfirmDiceExpression ==
    /\ DiceEditing
    /\ \E index \in 0..(Len(Stats) - 1), expression \in DiceExpressions :
          /\ DiceEditorAt(index)
          /\ diceEditor[index + 1][1].showDiceEditor
          /\ LET dices == orEmpty(Stats[index + 1].dices)
                 editingDiceIndex == diceEditor[index + 1][1].editingDiceIndex
             IN IF editingDiceIndex >= 0 /\ editingDiceIndex < Len(dices)
                THEN system' = withDices(index,
                                  [dices EXCEPT ![editingDiceIndex + 1].expression = expression])
                ELSE UNCHANGED system
          /\ Render(selectedTab, opened, showLimits, expandedOptions,
                    withDiceEditor(index, FALSE, -1), isOpen)
    /\ toast' = DiceToast
    /\ Performed("confirmDiceExpression")
    /\ UNCHANGED <<transferVars, newFieldKey>>

\* d.condition ?? { operator: "==", value1: "", value2: "" }
conditionOr(dice) ==
    IF dice.condition = <<>> THEN Condition("==", <<>>, <<>>) ELSE dice.condition[1]

\* DiceEditor, the value 1 field of a dice that is not the last:
\* set(i, { condition: { ...condition, value1: e.target.value } })
ConditionValue1Input ==
    /\ DiceEditing
    /\ \E index \in 0..(Len(Stats) - 1) :
          LET dices == orEmpty(Stats[index + 1].dices)
          IN /\ DiceEditorAt(index)
             /\ \E i \in 0..(Len(dices) - 2), text \in ConditionValues :
                   /\ text # conditionOr(dices[i + 1]).value1
                   /\ system' = withDices(index,
                         [dices EXCEPT ![i + 1].condition =
                             <<[conditionOr(dices[i + 1]) EXCEPT !.value1 = text]>>])
    /\ Rerendered
    /\ Performed("conditionValue1Input")
    /\ UNCHANGED <<transferVars, toast, newFieldKey>>

\* operators picked in the Select of a condition
EditedOperators == {"==", ">="}

\* DiceEditor, the operator Select of a dice that is not the last:
\* set(i, { condition: { ...condition, operator: val } })
ConditionOperatorSelect ==
    /\ DiceEditing
    /\ \E index \in 0..(Len(Stats) - 1) :
          LET dices == orEmpty(Stats[index + 1].dices)
          IN /\ DiceEditorAt(index)
             /\ \E i \in 0..(Len(dices) - 2), val \in EditedOperators :
                   /\ val # conditionOr(dices[i + 1]).operator
                   /\ system' = withDices(index,
                         [dices EXCEPT ![i + 1].condition =
                             <<[conditionOr(dices[i + 1]) EXCEPT !.operator = val]>>])
    /\ Rerendered
    /\ Performed("conditionOperatorSelect")
    /\ UNCHANGED <<transferVars, toast, newFieldKey>>

\* DiceEditor, the value 2 field
ConditionValue2Input ==
    /\ DiceEditing
    /\ \E index \in 0..(Len(Stats) - 1) :
          LET dices == orEmpty(Stats[index + 1].dices)
          IN /\ DiceEditorAt(index)
             /\ \E i \in 0..(Len(dices) - 2), text \in ConditionValues :
                   /\ text # conditionOr(dices[i + 1]).value2
                   /\ system' = withDices(index,
                         [dices EXCEPT ![i + 1].condition =
                             <<[conditionOr(dices[i + 1]) EXCEPT !.value2 = text]>>])
    /\ Rerendered
    /\ Performed("conditionValue2Input")
    /\ UNCHANGED <<transferVars, toast, newFieldKey>>

\* DiceEditor.moveUp(index) and moveDown(index): both swap two neighbours
DiceMove ==
    /\ DiceEditing
    /\ \E index \in 0..(Len(Stats) - 1) :
          LET dices == orEmpty(Stats[index + 1].dices)
          IN /\ DiceEditorAt(index)
             /\ \E i \in 1..(Len(dices) - 1) :
                   system' = withDices(index, swapped(dices, i - 1, i))
    /\ Rerendered
    /\ Performed("diceMove")
    /\ UNCHANGED <<transferVars, toast, newFieldKey>>

\* ReplacementEditor.add: returns without a change when no key is valid
ReplacementAdd ==
    /\ DiceEditing
    /\ \E index \in 0..(Len(Stats) - 1) :
          LET keys == validKeyStats(Stats, orEmpty(Stats[index + 1].dices))
          IN /\ DiceEditorAt(index)
             /\ ~(Len(keys) = 0)
             /\ system' = withReplacements(index,
                              Append(orEmpty(Stats[index + 1].replacements),
                                     Replacement(keys[1].id, <<keys[1].id>>)))
    /\ Rerendered
    /\ Performed("replacementAdd")
    /\ UNCHANGED <<transferVars, toast, newFieldKey>>

\* ReplacementEditor.remove(i)
ReplacementRemove ==
    /\ DiceEditing
    /\ \E index \in 0..(Len(Stats) - 1) :
          LET replacements == orEmpty(Stats[index + 1].replacements)
          IN /\ DiceEditorAt(index)
             /\ \E i \in 0..(Len(replacements) - 1) :
                   system' = withReplacements(index, spliceOut(replacements, i))
    /\ Rerendered
    /\ Performed("replacementRemove")
    /\ UNCHANGED <<transferVars, toast, newFieldKey>>

\* ReplacementEditor, the key Select: its items are validKeyStats;
\* set(i, { key: newKey, options: newOptions })
ReplacementKeySelect ==
    /\ DiceEditing
    /\ \E index \in 0..(Len(Stats) - 1) :
          LET replacements == orEmpty(Stats[index + 1].replacements)
              keys == validKeyStats(Stats, orEmpty(Stats[index + 1].dices))
          IN /\ DiceEditorAt(index)
             /\ \E i \in 0..(Len(replacements) - 1), k \in 1..Len(keys) :
                   LET newKey == keys[k].id
                       currentOptions == replacements[i + 1].options
                       newOptions == IF Includes(currentOptions, newKey) THEN currentOptions
                                     ELSE Append(currentOptions, newKey)
                   IN /\ newKey # replacements[i + 1].key
                      /\ system' = withReplacements(index,
                                       [replacements EXCEPT
                                           ![i + 1] = Replacement(newKey, newOptions)])
    /\ Rerendered
    /\ Performed("replacementKeySelect")
    /\ UNCHANGED <<transferVars, toast, newFieldKey>>

\* currentOptions.filter(id => id !== statId)
without(options, statId) ==
    LET Other(id) == id # statId
        kept == {k \in 1..Len(options) : Other(options[k])}
        RECURSIVE ascending(_)
        ascending(rest) ==
            IF rest = {} THEN <<>>
            ELSE LET k == CHOOSE k \in rest : \A j \in rest : k <= j
                 IN <<options[k]>> \o ascending(rest \ {k})
    IN ascending(kept)

\* ReplacementEditor.toggleOption(replacementIndex, statId)
ReplacementToggleOption ==
    /\ DiceEditing
    /\ \E index \in 0..(Len(Stats) - 1) :
          LET replacements == orEmpty(Stats[index + 1].replacements)
              offered == validOptionStats(Stats)
          IN /\ DiceEditorAt(index)
             /\ \E i \in 0..(Len(replacements) - 1), k \in 1..Len(offered) :
                   LET statId == offered[k].id
                       currentOptions == replacements[i + 1].options
                       newOptions == IF Includes(currentOptions, statId)
                                     THEN without(currentOptions, statId)
                                     ELSE Append(currentOptions, statId)
                   IN system' = withReplacements(index,
                                    [replacements EXCEPT ![i + 1].options = newOptions])
    /\ Rerendered
    /\ Performed("replacementToggleOption")
    /\ UNCHANGED <<transferVars, toast, newFieldKey>>

\* the stats tab of the editor with one card open
InitDice ==
    /\ pc = "open"
    /\ system = EditorSystem(DefaultStats, DefaultSections)
    /\ \E index \in 0..(Len(Stats) - 1) : EditorOn("stats", OneOpen(Stats, index))
    /\ NoParts
    /\ NoPreview
    /\ formulaArg = <<>>
    /\ statIdArg = 0
    /\ dependencies = <<>>
    /\ cyclic = FALSE
    /\ errors = <<>>
    /\ threw = FALSE

NextDice ==
    \/ DiceAdd
    \/ DiceRemove
    \/ OpenDiceEditor
    \/ CancelDiceEditor
    \/ ConfirmDiceExpression
    \/ ConditionValue1Input
    \/ ConditionOperatorSelect
    \/ ConditionValue2Input
    \/ DiceMove
    \/ ReplacementAdd
    \/ ReplacementRemove
    \/ ReplacementKeySelect
    \/ ReplacementToggleOption

SpecDice == InitDice /\ [][NextDice]_vars

\* C27: in every state the dice editor reaches through add, remove, move up,
\* move down and the condition fields, the last dice of a non-empty dice
\* list carries no condition.
C27_LastDiceIsUnconditional ==
    \A k \in 1..Len(Stats) :
       orEmpty(Stats[k].dices) # <<>> =>
          orEmpty(Stats[k].dices)[Len(orEmpty(Stats[k].dices))].condition = <<>>

----------------------------------------------------------------------------
(* Replacement keys in an editor session *)

\* the ids a dice references by a <stat:ID:value> token in its expression or
\* in a value of its condition
DiceReferences(dice) ==
    ValueTokenIds(dice.expression)
        \cup (IF dice.condition = <<>> THEN {}
              ELSE ValueTokenIds(dice.condition[1].value1)
                       \cup ValueTokenIds(dice.condition[1].value2))

UsageSet(stat) ==
    UNION {DiceReferences(orEmpty(stat.dices)[d]) : d \in 1..Len(orEmpty(stat.dices))}

\* C17: in every state reached by editing the dice and the replacements of a
\* stat, the key of each replacement of the stat is an id that a
\* <stat:ID:value> token of a dice expression or dice condition of the same
\* stat references.
C17_ReplacementKeysAreUsedInDices ==
    \A k \in 1..Len(Stats) :
        \A r \in 1..Len(orEmpty(Stats[k].replacements)) :
            orEmpty(Stats[k].replacements)[r].key \in UsageSet(Stats[k])

----------------------------------------------------------------------------
(* exportJson followed by importJson, applied to schemas the editor builds *)

\* stats of a schema that is exported
MaxExportedStats == 2

\* Stats as the editors leave them, under the id 0 that ExportedIds replaces:
\* the stat addStat builds for each kind; a numeric stat with the limits
\* switched off, with a minimum typed while it had no maximum, with a minimum
\* above the maximum and with limits of more digits; a stat whose name was
\* cleared, a duplicate, a stat with an emoji; an enum with options, an enum
\* that refers to another, and an enum whose options were switched off; a
\* calculated stat with a reference and with a typed text of a quote and a
\* backslash; a stat with a negative minimum, dice, a condition and
\* replacements, and a stat whose last dice and replacement were removed.
ExportedStatBodies ==
    << newStat(0, "numeric"),
       newStat(0, "enum"),
       newStat(0, "boolean"),
       newStat(0, "string"),
       newStat(0, "calculated"),
       handleLimitsToggle(newStat(0, "numeric"), FALSE),
       NumericStat(0, "Novo Stat", <<20>>, <<>>),
       NumericStat(0, "Novo Stat", <<20>>, <<10>>),
       NumericStat(0, "Forca", <<5>>, <<120>>),
       BooleanStat(0, ""),
       BooleanStat(0, copyName("Treinado em Furtividade")),
       [StringStat(0, "Novo Stat") EXCEPT !.emoji = "E"],
       EnumStat(0, "Classe",
                InlineOptions(<<Option(-1, "A"), [Option(0, "") EXCEPT !.emoji = "E"]>>)),
       EnumStat(0, "Novo Stat", ReferenceOptions(3)),
       EnumStat(0, "Novo Stat", ReferenceOptions(0)),
       CalculatedStat(0, "Novo Stat", ReferenceFormula(<<1, 2>>)),
       CalculatedStat(0, "", <<Quote, Backslash, "{", ",", ":">>),
       [NumericStat(0, "Forca", <<-5>>, <<10>>) EXCEPT
           !.dices = << << Dice(StatToken(<<"1">>, ValueProp) \o <<"d", "6">>,
                                <<Condition(">=", StatToken(<<"2">>, ValueProp),
                                            <<"-", "5">>)>>),
                           Dice(<<"1", "d", "2", "0">>, <<>>) >> >>,
           !.replacements = << << Replacement(1, <<1, 12>>),
                                  Replacement(2, <<>>) >> >>],
       [BooleanStat(0, "Novo Stat") EXCEPT !.dices = << <<>> >>,
                                           !.replacements = << <<>> >>] >>

\* the stat lists of at most n stats that follow one another in
\* ExportedStatBodies
ExportedStatLists(n) ==
    UNION {{SubSeq(ExportedStatBodies, first, first + len - 1) :
               first \in 1..(Len(ExportedStatBodies) - len + 1)} : len \in 0..n}

\* ids of a list of n stats in an editor session: 1..n, or after removals and
\* additions n..1 with the highest id moved up to 12
ExportedIds(n) ==
    { [k \in 1..n |-> k], [k \in 1..n |-> IF k = 1 THEN 12 ELSE n + 1 - k] }

ExportedSections ==
    { <<>>, DefaultSections,
      << [Section(2, "", "img") EXCEPT !.emoji = "S"], Section(10, "Nova Seção", "string") >> }

\* the integrations of the editor, and integrations with two schemas, one
\* with a renamed field that has an option and a field under a key of two
\* digits
ExportedIntegrations ==
    { Integrations(<<>>),
      Integrations(<< NexusSchema(0, <<>>),
                      NexusSchema(1, (1 :> [SchemaEval("mp") EXCEPT
                                               !.options = <<SchemaOption("", "Nova Opção"),
                                                             SchemaOption("x", "")>>])
                                         @@ (12 :> SchemaEval("novo_campo"))) >>) }

InitRoundTrip ==
    /\ pc = "open"
    /\ \E bodies \in ExportedStatLists(MaxExportedStats), sections \in ExportedSections,
          integrations \in ExportedIntegrations :
          \E layout \in ExportedIds(Len(bodies)) :
              system = [EditorSystem(WithIds(bodies, layout), sections) EXCEPT
                           !.integrations = <<integrations>>]
    /\ EditorOn("config", <<>>)
    /\ NoParts
    /\ NoPreview
    /\ formulaArg = <<>>
    /\ statIdArg = 0
    /\ dependencies = <<>>
    /\ cyclic = FALSE
    /\ errors = <<>>
    /\ threw = FALSE

NextRoundTrip ==
    \/ PatchConfigName
    \/ ExportJson
    \/ CopyJson
    \/ CopySettled
    \/ ImportJson
    \/ ReaderOnload

SpecRoundTrip == InitRoundTrip /\ [][NextRoundTrip]_vars

\* the step loaded the file at position i of the reads under way
Loaded(i) == reading' = spliceOut(reading, i - 1)

\* C15: importing the file exportJson wrote of a schema gives a schema that is
\* structurally identical to the one exported, and validate returns for it
\* the error list it returned before the export.
C15_RoundTripIsIdentity ==
    [][pc' = "readerOnload" =>
          \A i \in 1..Len(reading) :
              Loaded(i) /\ Includes(exported, reading[i]) /\ reading[i] = stringify(system)
                  => /\ toast' = ImportedToast
                     /\ system' = system
                     /\ validate(system') = validate(system)]_vars

\* a schema came back from its file whose text holds a negative number, an
\* escaped quote, a condition, a replacement and a field of an integration
\* schema
C15_Witness ==
    /\ pc = "readerOnload"
    /\ toast = ImportedToast
    /\ Includes(exported, stringify(system))
    /\ \E k \in 1..Len(Stats) : Stats[k].min = <<-5>>
    /\ \E k \in 1..Len(Stats) : Includes(Stats[k].formula, Quote)
    /\ \E k \in 1..Len(Stats) :
          /\ orEmpty(Stats[k].replacements) # <<>>
          /\ \E d \in 1..Len(orEmpty(Stats[k].dices)) :
                orEmpty(Stats[k].dices)[d].condition # <<>>
    /\ \E s \in 1..Len(system.integrations[1].schemas) :
          12 \in DOMAIN system.integrations[1].schemas[s].fields

----------------------------------------------------------------------------
(* The legacy converter (converter/convertToNewFormat.ts).  A document of   *)
(* the old format is what JSON.parse yields: its i18n object is the list of *)
(* its locales in key order, and a key that may be missing is a sequence of *)
(* length 0 or 1.                                                           *)

\* stats of a document of the old format
MaxOldStats == 2

\* a locale of i18n: the label of commands.config, the names of the stats by
\* id and the keys of menu
OldLocale(key, label, stats, menu) ==
    [key |-> key, label |-> label, stats |-> stats, menu |-> menu]

\* a stat of the old format
OldStat(id, enum, dices, canHoldValue) ==
    [id |-> id, enum |-> enum, dices |-> dices, canHoldValue |-> canHoldValue]

\* a document of the old format
OldFormat(i18n, config, stats) == [i18n |-> i18n, config |-> config, stats |-> stats]

\* what a function call ends with
Threw(error) == [threw |-> TRUE, error |-> error, value |-> <<>>]
ReturnedValue(value) == [threw |-> FALSE, error |-> "", value |-> value]

\* oldData.i18n.default || oldData.i18n[Object.keys(oldData.i18n)[0]]: the
\* locale under the key default, else the first one, else undefined
defaultLocale(i18n) ==
    LET defaults == {k \in 1..Len(i18n) : i18n[k].key = "default"}
    IN IF defaults # {} THEN <<i18n[Least(defaults)]>>
       ELSE IF i18n # <<>> THEN <<i18n[1]>>
       ELSE <<>>

\* defaultLocale.stats[oldStat.id.toString()] || `Stat ${oldStat.id}`
statName(locale, id) ==
    IF id \in DOMAIN locale.stats /\ locale.stats[id] # "" THEN locale.stats[id]
    ELSE "Stat " \o ToDigit(id)

\* oldStat.dices?.map(d => ({ expression: d.dice }))
convertedDices(dices) ==
    IF dices = <<>> THEN <<>>
    ELSE << [k \in 1..Len(dices[1]) |-> [expression |-> dices[1][k].dice]] >>

hasEnumOptions(oldStat) == oldStat.enum # <<>> /\ oldStat.enum[1] # <<>>

\* if (oldStat.enum)
hasEnum(oldStat) == oldStat.enum # <<>>

\* the callback of oldData.stats.map
convertStat(oldStat, locale) ==
    IF hasEnum(oldStat)
    THEN [id |-> oldStat.id, name |-> statName(locale, oldStat.id), type |-> "enum",
          formula |-> <<>>,
          options |-> << [k \in 1..Len(oldStat.enum[1]) |->
                             [value |-> oldStat.enum[1][k].value]] >>,
          dices |-> convertedDices(oldStat.dices)]
    ELSE IF oldStat.dices # <<>> /\ Len(oldStat.dices[1]) > 0
    THEN [id |-> oldStat.id, name |-> statName(locale, oldStat.id), type |-> "calculated",
          formula |-> <<oldStat.dices[1][1].dice>>, options |-> <<>>,
          dices |-> convertedDices(oldStat.dices)]
    ELSE IF oldStat.canHoldValue = <<FALSE>>
    THEN [id |-> oldStat.id, name |-> statName(locale, oldStat.id), type |-> "boolean",
          formula |-> <<>>, options |-> <<>>, dices |-> <<>>]
    ELSE [id |-> oldStat.id, name |-> statName(locale, oldStat.id), type |-> "numeric",
          formula |-> <<>>, options |-> <<>>, dices |-> <<>>]

\* the document of the new format, or the TypeError of reading a property of
\* undefined: commands (line 76), the default locale (line 78), stats (line 95)
convertToNewFormat(document) ==
    IF document.config = <<>> \/ document.i18n = <<>> \/ document.stats = <<>>
    THEN Threw("TypeError")
    ELSE ReturnedValue(
            [config |-> [id |-> document.config[1].value,
                         name |-> defaultLocale(document.i18n)[1].label],
             stats |-> [k \in 1..Len(document.stats[1]) |->
                          convertStat(document.stats[1][k],
                                      defaultLocale(document.i18n)[1])],
             sections |-> [k \in 1..Len(defaultLocale(document.i18n)[1].menu) |->
                             [id |-> defaultLocale(document.i18n)[1].menu[k]]]])

----------------------------------------------------------------------------
(* convertToNewFormat applied to documents of the old format *)

\* all lists of at most n items drawn from a set
ListsUpTo(items, n) == UNION {[1..k -> items] : k \in 0..n}

OneOption == <<[value |-> 7]>>
TwoDices == <<[dice |-> "1d20"], [dice |-> "2d6"]>>

\* stats with and without each of the fields the conversion looks at
OldStats ==
    {OldStat(id, enum, dices, canHoldValue) :
        id \in {1, 2},
        enum \in {<<>>, <<(<<>>)>>, <<OneOption>>},
        dices \in {<<>>, <<(<<>>)>>, <<TwoDices>>},
        canHoldValue \in {<<>>, <<TRUE>>, <<FALSE>>}}

Portuguese == OldLocale("pt-BR", "Sistema", [id \in {1} |-> "Força"], <<1>>)
English == OldLocale("default", "System", [id \in {1, 2} |-> "Strength"], <<1, 2>>)

OldConfig == <<[value |-> 5]>>

\* documents with their keys present, and documents with one key missing
OldDocuments ==
    {OldFormat(i18n, OldConfig, <<stats>>) :
        i18n \in {<<Portuguese>>, <<Portuguese, English>>},
        stats \in ListsUpTo(OldStats, MaxOldStats)}
    \cup {OldFormat(<<>>, OldConfig, <<(<<>>)>>),
          OldFormat(<<English>>, <<>>, <<(<<>>)>>),
          OldFormat(<<English>>, OldConfig, <<>>)}

InitConvert ==
    /\ pc = "call"
    /\ oldData \in OldDocuments
    /\ oldJson = <<>>
    /\ newData = <<>>
    /\ newFormat = <<>>
    /\ exitCode = <<>>
    /\ system = NoSystem
    /\ formulaArg = <<>>
    /\ statIdArg = 0
    /\ dependencies = <<>>
    /\ cyclic = FALSE
    /\ errors = <<>>
    /\ threw = FALSE
    /\ NoPreview
    /\ NoEditor
    /\ NoScanner
    /\ NoDepth

CallConvertToNewFormat ==
    /\ pc = "call"
    /\ \E result \in {convertToNewFormat(oldData)} :
          /\ newData' = (IF result.threw THEN <<>> ELSE <<result.value>>)
          /\ threw' = result.threw
    /\ pc' = "done"
    /\ UNCHANGED <<system, formulaArg, statIdArg, dependencies, cyclic, errors,
                   previewVars, editorVars, oldJson, oldData, newFormat, exitCode,
                   scannerVars, depth>>

NextConvert == CallConvertToNewFormat

SpecConvert == InitConvert /\ [][NextConvert]_vars

\* the old stats of the document converted and the stats of its conversion
OldStatsConverted == oldData.stats[1]
NewStats == newData[1].stats

\* the type the precedence gives an old stat
InferredType(oldStat) ==
    IF oldStat.enum # <<>> THEN "enum"
    ELSE IF oldStat.dices # <<>> /\ oldStat.dices[1] # <<>> THEN "calculated"
    ELSE IF oldStat.canHoldValue = <<FALSE>> THEN "boolean"
    ELSE "numeric"

\* C22: the conversion gives one stat per stat of the old document, with the
\* same id and in the same order; its type is enum when the old stat has an
\* enum field (also when it has dices), else calculated when it has a non-empty
\* dices list, with the first dice expression as formula, else boolean when
\* canHoldValue is false, else numeric.
C22_TypeInferredByPrecedence ==
    pc = "done" /\ ~threw =>
        /\ Len(NewStats) = Len(OldStatsConverted)
        /\ \A k \in 1..Len(NewStats) :
              /\ NewStats[k].id = OldStatsConverted[k].id
              /\ NewStats[k].type = InferredType(OldStatsConverted[k])
              /\ NewStats[k].type = "calculated" =>
                    NewStats[k].formula = <<OldStatsConverted[k].dices[1][1].dice>>

\* two stats were converted: the first has an empty enum field, dices and
\* canHoldValue false and became an enum, the second has dices only and
\* became calculated with the first expression as formula
C22_Witness ==
    /\ pc = "done" /\ ~threw
    /\ Len(NewStats) = 2
    /\ OldStatsConverted[1] = OldStat(2, <<(<<>>)>>, <<TwoDices>>, <<FALSE>>)
    /\ NewStats[1].type = "enum" /\ NewStats[1].id = 2
    /\ OldStatsConverted[2] = OldStat(1, <<>>, <<TwoDices>>, <<>>)
    /\ NewStats[2].type = "calculated" /\ NewStats[2].formula = <<"1d20">>

----------------------------------------------------------------------------
(* main of the converter: one run of the process.  A file is <<>> when it   *)
(* does not exist, else <<its content>>; the content of ./oldJson.json is   *)
(* text JSON.parse rejects, or the document JSON.parse yields.              *)

NotJson == [parses |-> FALSE, document |-> <<>>]
JsonOf(document) == [parses |-> TRUE, document |-> document]

\* a ./newFormat.json left by an earlier run
EarlierFormat == [config |-> [id |-> 1, name |-> "Old"], stats |-> <<>>, sections |-> <<>>]

\* what writeFileSync left of a file when it threw before the end
Truncated == [config |-> [id |-> 0, name |-> ""], stats |-> <<>>, sections |-> <<>>]

caughtAndCleared(file) == [newFormat |-> <<>>, exitCode |-> <<1>>]

\* the catch block: console.error(...); process.exit(1)
caught(file) == [newFormat |-> file, exitCode |-> <<1>>]

\* writeFileSync(newJsonPath, JSON.stringify(newData, null, 2), 'utf-8') and
\* the end of the try block; when the write throws, the file is as it was or
\* holds a part of the text
written(file, document, outcome) ==
    CASE outcome = "written" -> [newFormat |-> <<document>>, exitCode |-> <<0>>]
      [] outcome = "refused" -> caught(file)
      [] OTHER -> caught(<<Truncated>>)

\* the try block up to the write: readFileSync, JSON.parse, convertToNewFormat
converted(file) ==
    IF file = <<>> THEN Threw("ENOENT")
    ELSE IF ~file[1].parses THEN Threw("SyntaxError")
    ELSE convertToNewFormat(file[1].document)

main(input, output, outcome) ==
    IF converted(input).threw THEN caught(output)
    ELSE written(output, converted(input).value, outcome)

WriteOutcomes == {"written", "refused", "partial"}

OldJsonFiles == {<<>>, <<NotJson>>} \cup {<<JsonOf(document)>> : document \in OldDocuments}

InitMain ==
    /\ pc = "start"
    /\ oldJson \in OldJsonFiles
    /\ newFormat \in {<<>>, <<EarlierFormat>>}
    /\ oldData = <<>>
    /\ newData = <<>>
    /\ exitCode = <<>>
    /\ system = NoSystem
    /\ formulaArg = <<>>
    /\ statIdArg = 0
    /\ dependencies = <<>>
    /\ cyclic = FALSE
    /\ errors = <<>>
    /\ threw = FALSE
    /\ NoPreview
    /\ NoEditor
    /\ NoScanner
    /\ NoDepth

Main ==
    /\ pc = "start"
    /\ \E outcome \in WriteOutcomes :
          \E end \in {main(oldJson, newFormat, outcome)} :
             /\ newFormat' = end.newFormat
             /\ exitCode' = end.exitCode
    /\ pc' = "exited"
    /\ UNCHANGED <<system, formulaArg, statIdArg, dependencies, cyclic, errors, threw,
                   previewVars, editorVars, oldJson, oldData, newData, scannerVars,
                   depth>>

NextMain == Main

SpecMain == InitMain /\ [][NextMain]_vars

\* reading, parsing or converting the input raises an exception
InputFails ==
    \/ oldJson = <<>>
    \/ ~oldJson[1].parses
    \/ oldJson[1].document.config = <<>>
    \/ oldJson[1].document.i18n = <<>>
    \/ oldJson[1].document.stats = <<>>

\* C23: when reading, parsing or converting the input raises an exception,
\* the run writes nothing, ./newFormat.json is after the run what it was
\* before (absent when it was absent), and the process exits with status 1.
C23_FailedRunWritesNothing ==
    [][pc = "start" /\ InputFails => newFormat' = newFormat /\ exitCode' = <<1>>]_vars

\* a run whose input parsed but could not be converted ended with status 1
\* beside the output of an earlier run
C23_Witness ==
    /\ pc = "exited"
    /\ oldJson = <<JsonOf(OldFormat(<<>>, OldConfig, <<(<<>>)>>))>>
    /\ newFormat = <<EarlierFormat>>
    /\ exitCode = <<1>>

----------------------------------------------------------------------------
(* The pills of the markdown editor: MarkdownEditor.renderTextWithPills     *)
(* splits the text of the editor into literal runs and tokens.              *)

\* a run of literal text and a pill; index is match.index, 0-based
LiteralPart(text) == [pill |-> FALSE, text |-> text, index |-> 0]
PillPart(text, index) == [pill |-> TRUE, text |-> text, index |-> index]

\* PillEnd without the second alternative of the regular expression
PillEndOfVariable(text, i) ==
    IF variableMatch(text, i).found THEN variableMatch(text, i).end ELSE 0

\* /<(stat|section):(\d+):(name|value|emoji)>|<math:([^>]+)>/ tried at
\* position i: the position of the closing '>' of the match, 0 without one
PillEnd(text, i) ==
    IF variableMatch(text, i).found THEN variableMatch(text, i).end
    ELSE expressionMatch(text, i, MathOpen)

\* one turn of the while loop with the match found at position m; loop is
\* lastIndex and parts
pushParts(text, m, loop) ==
    [lastIndex |-> PillEnd(text, m),
     parts |-> (IF m - 1 > loop.lastIndex
                THEN Append(loop.parts, LiteralPart(SubSeq(text, loop.lastIndex + 1, m - 1)))
                ELSE loop.parts)
               \o <<PillPart(SubSeq(text, m, PillEnd(text, m)), m - 1)>>]

RECURSIVE renderTextWithPills(_, _)
renderTextWithPills(text, loop) ==
    LET matches == {k \in (loop.lastIndex + 1)..Len(text) : PillEnd(text, k) # 0}
    IN IF matches # {} THEN renderTextWithPills(text, pushParts(text, Least(matches), loop))
       ELSE IF loop.lastIndex < Len(text)
       THEN Append(loop.parts, LiteralPart(SubSeq(text, loop.lastIndex + 1, Len(text))))
       ELSE loop.parts

\* tokens, a math token whose payload opens a stat token, tokens that are
\* malformed or not terminated, a dice token and literal text
EditorSegments ==
    { StatRef(1, ValueProp), SectionRef(2, NameProp),
      MathOf(<<"1">>), MathOf(StatRef(1, ValueProp) \o PlusTwo),
      StatOpen \o <<"1", ":", "f", "o", "o", ">">>,
      StatOpen \o <<"1", ":">>,
      StatOpen \o <<"x", ":">> \o ValueProp \o <<">">>,
      MathOf(<<>>), MathOpen \o <<"1">>,
      DiceOf(<<"1", "d", "6">>),
      <<"x">>, <<"<">>, <<">">> }

RECURSIVE EditorTexts(_)
EditorTexts(n) ==
    IF n = 0 THEN {<<>>}
    ELSE LET shorter == EditorTexts(n - 1)
         IN shorter \cup {t \o p : t \in shorter, p \in EditorSegments}

InitPills ==
    /\ pc = "call"
    /\ valueArg \in EditorTexts(MaxSegments)
    /\ parts = <<>>
    /\ system = PreviewSystem(NumericStat(1, "Forca", <<3>>, <<10>>))
    /\ processedValue = <<>>
    /\ evaluated = <<>>
    /\ rolled = <<>>
    /\ random = 0
    /\ NoEditor
    /\ NoConverter
    /\ NoDepth
    /\ formulaArg = <<>>
    /\ statIdArg = 0
    /\ dependencies = <<>>
    /\ cyclic = FALSE
    /\ errors = <<>>
    /\ threw = FALSE

CallRenderTextWithPills ==
    /\ pc = "call"
    /\ parts' = renderTextWithPills(valueArg, [lastIndex |-> 0, parts |-> <<>>])
    /\ pc' = "done"
    /\ UNCHANGED <<system, formulaArg, statIdArg, dependencies, cyclic, errors, threw,
                   previewVars, editorVars, converterVars, depth>>

NextPills == CallRenderTextWithPills

SpecPills == InitPills /\ [][NextPills]_vars

\* the text is <stat:DIGITS:PROPERTY> or <section:DIGITS:PROPERTY>
IsVariableToken(text) ==
    \E open \in {StatOpen, SectionOpen}, property \in {NameProp, ValueProp, EmojiProp} :
       LET n == Len(text) - Len(property) - 2
       IN /\ n > Len(open)
          /\ SubSeq(text, 1, Len(open)) = open
          /\ \A k \in (Len(open) + 1)..n : text[k] \in Digit
          /\ SubSeq(text, n + 1, Len(text)) = <<":">> \o property \o <<">">>

\* the text is <math:PAYLOAD> with a payload of one character or more, none '>'
IsMathToken(text) ==
    /\ Len(text) > Len(MathOpen) + 1
    /\ SubSeq(text, 1, Len(MathOpen)) = MathOpen
    /\ text[Len(text)] = ">"
    /\ \A k \in (Len(MathOpen) + 1)..(Len(text) - 1) : text[k] # ">"

\* a token of the text starts at position i
TokenStartsAt(text, i) ==
    \E e \in i..Len(text) :
       IsVariableToken(SubSeq(text, i, e)) \/ IsMathToken(SubSeq(text, i, e))

\* the number of characters of the parts before part p
RECURSIVE OffsetOfPart(_)
OffsetOfPart(p) == IF p = 1 THEN 0 ELSE OffsetOfPart(p - 1) + Len(parts[p - 1].text)

\* the texts of the first p parts, concatenated
RECURSIVE TextOfParts(_)
TextOfParts(p) == IF p = 0 THEN <<>> ELSE TextOfParts(p - 1) \o parts[p].text

\* C24: the parts of a text are its literal runs and its tokens from left to
\* right: each pill is a well-formed token and starts where the parts before
\* it end, so the spans do not overlap; the texts of the parts, concatenated
\* in order, are the input; and no token starts inside a literal run, so a
\* malformed or unterminated token is literal text.
C24_PartsPartitionTheText ==
    pc = "done" =>
        /\ TextOfParts(Len(parts)) = valueArg
        /\ \A p \in 1..Len(parts) :
              IF parts[p].pill
              THEN /\ parts[p].index = OffsetOfPart(p)
                   /\ IsVariableToken(parts[p].text) \/ IsMathToken(parts[p].text)
              ELSE /\ parts[p].text # <<>>
                   /\ \A k \in 1..Len(parts[p].text) :
                         ~TokenStartsAt(valueArg, OffsetOfPart(p) + k)

\* a malformed stat token, a stat token and an unterminated math token: the
\* parts are a literal run, a pill and a literal run
C24_Witness ==
    /\ pc = "done"
    /\ valueArg = StatOpen \o <<"1", ":", "f", "o", "o", ">">> \o StatRef(1, ValueProp)
                     \o MathOpen \o <<"1">>
    /\ Len(parts) = 3
    /\ ~parts[1].pill /\ parts[2].pill /\ ~parts[3].pill
    /\ parts[2].text = StatRef(1, ValueProp)

----------------------------------------------------------------------------
(* The stat operations that do not edit a formula, on schemas that validate *)
(* accepts                                                                  *)

\* stats a valid schema may hold at position k: a numeric stat, or a
\* calculated stat whose formula references one stat
ValidStatsAt(k) ==
    {NumericStat(k, "Forca", <<0>>, <<10>>)}
    \cup {CalculatedStat(k, "Novo Stat", StatToken(<<ToDigit(j)>>, ValueProp)) :
             j \in 1..MaxStats}

\* the stat lists of at most n stats, the k-th with id k
StatListsUpTo(n) ==
    UNION {{list \in [1..len -> UNION {ValidStatsAt(k) : k \in 1..len}] :
               \A k \in 1..len : list[k].id = k} : len \in 1..n}

\* validate(system).length === 0: the schema can be saved
Accepted(sys) == ~validate(sys).threw /\ validate(sys).errs = <<>>

InitStatOperations ==
    /\ pc = "open"
    /\ \E list \in StatListsUpTo(MaxStats) : system = EditorSystem(list, DefaultSections)
    /\ Accepted(system)
    /\ EditorOn("stats", <<>>)
    /\ NoParts
    /\ NoPreview
    /\ formulaArg = <<>>
    /\ statIdArg = 0
    /\ dependencies = <<>>
    /\ cyclic = FALSE
    /\ errors = <<>>
    /\ threw = FALSE

NextStatOperations ==
    \/ AddStat
    \/ RemoveStat
    \/ DuplicateStat
    \/ MoveStat

SpecStatOperations == InitStatOperations /\ [][NextStatOperations]_vars

\* hasCircularDependency is false for every calculated stat
NoStatIsCircular ==
    \A k \in 1..Len(Stats) :
       Stats[k].type = "calculated" =>
          ~hasCircularDependency(Stats[k].id, Stats[k].formula, Stats)

\* validate reports no circular dependency
NoCircularError ==
    \A e \in 1..Len(validate(system).errs) :
       validate(system).errs[e].kind # "stats tem dependencia circular na formula"

\* C25: after any sequence of addStat, duplicateStat, removeStat and moveStat
\* on a schema whose dependency graph is acyclic, hasCircularDependency is
\* false for every calculated stat and validate reports no circular
\* dependency.
C25_StatOperationsKeepAcyclic == NoStatIsCircular /\ NoCircularError

----------------------------------------------------------------------------
(* IntegrationsTab (components/unique/StatsTab.tsx): the schemas of         *)
(* system.integrations, their fields and the options of a field.            *)

\* operations on the integrations in one session
MaxIntegrationEdits == 4

\* const currentIntegrations = integrations || { schemas: [] }
currentIntegrations ==
    IF system.integrations = <<>> THEN Integrations(<<>>) ELSE system.integrations[1]

Schemas == currentIntegrations.schemas

\* updateIntegrations(updates): { ...currentIntegrations, ...updates } handed
\* to setSystem({ ...system, integrations }); of the members of the
\* integrations the schemas are kept here, and updates of another member
\* leave them as they are
updateIntegrations(schemas) ==
    [system EXCEPT !.integrations = <<[currentIntegrations EXCEPT !.schemas = schemas]>>]

\* fields[key] = field on a copy of the fields
withField(fields, key, field) ==
    [k \in DOMAIN fields \cup {key} |-> IF k = key THEN field ELSE fields[k]]

\* delete fields[key] on a copy of the fields
withoutField(fields, key) == [k \in DOMAIN fields \ {key} |-> fields[k]]

\* schemas[index] = { ...schemas[index], ...updates }, for updates of fields
updateSchema(schemas, index, fields) == [schemas EXCEPT ![index + 1].fields = fields]

\* updateField(schemaIndex, fieldKey, updates)
updateField(schemaIndex, fieldKey, field) ==
    updateIntegrations(
        updateSchema(Schemas, schemaIndex,
                     withField(Schemas[schemaIndex + 1].fields, fieldKey, field)))

IntegrationEditing == edits < MaxIntegrationEdits

\* the stats of an imported document: the stats the editor starts with, the
\* first with a dice
ImportedStats ==
    [DefaultStats EXCEPT ![1].dices = <<<<Dice(<<"1", "d", "2", "0">>, <<>>)>>>>]

\* the integrations tab of the editor, opened on the integrations the editor
\* starts with, on the integrations of an imported document whose schema has
\* a field and on an imported document without integrations
InitIntegrations ==
    /\ pc = "open"
    /\ \/ \E schemas \in {<<>>, <<NexusSchema(0, withField(<<>>, 1, SchemaEval("hp")))>>} :
             system = [EditorSystem(DefaultStats, DefaultSections) EXCEPT
                          !.integrations = <<Integrations(schemas)>>]
       \/ system = System(DefaultConfig, ArrayValue(ImportedStats),
                          ArrayValue(DefaultSections))
    /\ EditorOn("integrations", <<>>)
    /\ NoParts
    /\ NoPreview
    /\ formulaArg = <<>>
    /\ statIdArg = 0
    /\ dependencies = <<>>
    /\ cyclic = FALSE
    /\ errors = <<>>
    /\ threw = FALSE

\* getStatsWithDices(): the stats whose dices is an array that is not empty
getStatsWithDices(stats) ==
    {k \in 1..Len(stats) : stats[k].dices # <<>> /\ Len(stats[k].dices[1]) > 0}

\* the Select "Stat de Iniciativa", rendered while a stat has dice:
\* updateIntegrations({ iniciative: { id: value } })
IniciativeSelect ==
    /\ IntegrationEditing
    /\ selectedTab = "integrations"
    /\ getStatsWithDices(Stats) # {}
    /\ system' = updateIntegrations(Schemas)
    /\ Rerendered
    /\ Performed("iniciativeSelect")
    /\ UNCHANGED <<transferVars, toast, newFieldKey>>

\* the Textarea "Atributos de Rolagem":
\* updateIntegrations({ atributes_roll: e.target.value })
AtributesRollInput ==
    /\ IntegrationEditing
    /\ selectedTab = "integrations"
    /\ system' = updateIntegrations(Schemas)
    /\ Rerendered
    /\ Performed("atributesRollInput")
    /\ UNCHANGED <<transferVars, toast, newFieldKey>>

\* confirmExpression(expression), from the expression editor the Math and
\* Dice buttons open: updateIntegrations({ atributes_roll: expression })
ConfirmExpression ==
    /\ IntegrationEditing
    /\ selectedTab = "integrations"
    /\ system' = updateIntegrations(Schemas)
    /\ Rerendered
    /\ Performed("confirmExpression")
    /\ UNCHANGED <<transferVars, toast, newFieldKey>>

\* addSchema
AddSchema ==
    /\ IntegrationEditing
    /\ selectedTab = "integrations"
    /\ system' = updateIntegrations(Append(Schemas, NexusSchema(Len(Schemas), <<>>)))
    /\ Rerendered
    /\ Performed("addSchema")
    /\ UNCHANGED <<transferVars, toast, newFieldKey>>

\* removeSchema(index)
RemoveSchema ==
    /\ IntegrationEditing
    /\ selectedTab = "integrations"
    /\ \E index \in 0..(Len(Schemas) - 1) :
          system' = updateIntegrations(spliceOut(Schemas, index))
    /\ Rerendered
    /\ Performed("removeSchema")
    /\ UNCHANGED <<transferVars, toast, newFieldKey>>

\* addField(schemaIndex)
AddField ==
    /\ IntegrationEditing
    /\ selectedTab = "integrations"
    /\ \E schemaIndex \in 0..(Len(Schemas) - 1) :
          system' = updateField(schemaIndex, newFieldKey, SchemaEval("novo_campo"))
    /\ newFieldKey' = newFieldKey + 1
    /\ Rerendered
    /\ Performed("addField")
    /\ UNCHANGED <<transferVars, toast>>

\* names typed into the name field of a field
EditedFieldNames == {"mp"}

\* updateField(schemaIndex, fieldKey, { name }) from the name field
UpdateFieldName ==
    /\ IntegrationEditing
    /\ selectedTab = "integrations"
    /\ \E schemaIndex \in 0..(Len(Schemas) - 1), name \in EditedFieldNames :
          \E fieldKey \in DOMAIN Schemas[schemaIndex + 1].fields :
             LET field == Schemas[schemaIndex + 1].fields[fieldKey]
             IN /\ name # field.name
                /\ system' = updateField(schemaIndex, fieldKey, [field EXCEPT !.name = name])
    /\ Rerendered
    /\ Performed("updateField")
    /\ UNCHANGED <<transferVars, toast, newFieldKey>>

\* removeField(schemaIndex, fieldKey)
RemoveField ==
    /\ IntegrationEditing
    /\ selectedTab = "integrations"
    /\ \E schemaIndex \in 0..(Len(Schemas) - 1) :
          \E fieldKey \in DOMAIN Schemas[schemaIndex + 1].fields :
             system' = updateIntegrations(
                           updateSchema(Schemas, schemaIndex,
                                        withoutField(Schemas[schemaIndex + 1].fields,
                                                     fieldKey)))
    /\ Rerendered
    /\ Performed("removeField")
    /\ UNCHANGED <<transferVars, toast, newFieldKey>>

\* addOption(schemaIndex, fieldKey)
AddOption ==
    /\ IntegrationEditing
    /\ selectedTab = "integrations"
    /\ \E schemaIndex \in 0..(Len(Schemas) - 1) :
          \E fieldKey \in DOMAIN Schemas[schemaIndex + 1].fields :
             LET field == Schemas[schemaIndex + 1].fields[fieldKey]
             IN system' = updateField(schemaIndex, fieldKey,
                              [field EXCEPT
                                  !.options = Append(@, SchemaOption("", "Nova Opção"))])
    /\ Rerendered
    /\ Performed("addOption")
    /\ UNCHANGED <<transferVars, toast, newFieldKey>>

\* texts typed into the value field of an option
EditedOptionTexts == {"x"}

\* updateOption(schemaIndex, fieldKey, optionIndex, { value }) from the value
\* field
UpdateOptionValue ==
    /\ IntegrationEditing
    /\ selectedTab = "integrations"
    /\ \E schemaIndex \in 0..(Len(Schemas) - 1), text \in EditedOptionTexts :
          \E fieldKey \in DOMAIN Schemas[schemaIndex + 1].fields :
             LET field == Schemas[schemaIndex + 1].fields[fieldKey]
             IN \E optionIndex \in 0..(Len(field.options) - 1) :
                   /\ text # field.options[optionIndex + 1].value
                   /\ system' = updateField(schemaIndex, fieldKey,
                         [field EXCEPT !.options[optionIndex + 1].value = text])
    /\ Rerendered
    /\ Performed("updateOptionValue")
    /\ UNCHANGED <<transferVars, toast, newFieldKey>>

\* updateOption(schemaIndex, fieldKey, optionIndex, { label }) from the label
\* field
UpdateOptionLabel ==
    /\ IntegrationEditing
    /\ selectedTab = "integrations"
    /\ \E schemaIndex \in 0..(Len(Schemas) - 1), text \in EditedNames :
          \E fieldKey \in DOMAIN Schemas[schemaIndex + 1].fields :
             LET field == Schemas[schemaIndex + 1].fields[fieldKey]
             IN \E optionIndex \in 0..(Len(field.options) - 1) :
                   /\ text # field.options[optionIndex + 1].label
                   /\ system' = updateField(schemaIndex, fieldKey,
                         [field EXCEPT !.options[optionIndex + 1].label = text])
    /\ Rerendered
    /\ Performed("updateOptionLabel")
    /\ UNCHANGED <<transferVars, toast, newFieldKey>>

\* removeOption(schemaIndex, fieldKey, optionIndex)
RemoveOption ==
    /\ IntegrationEditing
    /\ selectedTab = "integrations"
    /\ \E schemaIndex \in 0..(Len(Schemas) - 1) :
          \E fieldKey \in DOMAIN Schemas[schemaIndex + 1].fields :
             LET field == Schemas[schemaIndex + 1].fields[fieldKey]
             IN \E optionIndex \in 0..(Len(field.options) - 1) :
                   system' = updateField(schemaIndex, fieldKey,
                       [field EXCEPT !.options = spliceOut(@, optionIndex)])
    /\ Rerendered
    /\ Performed("removeOption")
    /\ UNCHANGED <<transferVars, toast, newFieldKey>>

NextIntegrations ==
    \/ IniciativeSelect
    \/ AtributesRollInput
    \/ ConfirmExpression
    \/ AddSchema
    \/ RemoveSchema
    \/ AddField
    \/ UpdateFieldName
    \/ RemoveField
    \/ AddOption
    \/ UpdateOptionValue
    \/ UpdateOptionLabel
    \/ RemoveOption
    \/ SelectTab

SpecIntegrations == InitIntegrations /\ [][NextIntegrations]_vars

\* C28: after any sequence of addSchema and removeSchema, the ids of the
\* integration schemas are pairwise distinct.
C28_SchemaIdsDistinct ==
    \A a, b \in 1..Len(Schemas) : a # b => Schemas[a].id # Schemas[b].id

\* the integration schemas after the step
SchemasAfter == system'.integrations[1].schemas

\* the step changed the fields of the schema at position target only, kept
\* every field that schema had as it was, and gave it one new key
OnlyAddedTo(target) ==
    LET before == Schemas[target].fields
        after == SchemasAfter[target].fields
    IN /\ \A k \in DOMAIN before : k \in DOMAIN after /\ after[k] = before[k]
       /\ Cardinality(DOMAIN after \ DOMAIN before) = 1
       /\ \A other \in 1..Len(Schemas) :
             other # target => SchemasAfter[other] = Schemas[other]

\* C29: addField only adds: after it, every field the target schema had is
\* still there with the content it had and the schema has exactly one new
\* key, for a schema created in the session, an imported one and one edited
\* before the tab was opened again.
C29_AddFieldOnlyAdds ==
    [][pc' = "addField" =>
          /\ Len(SchemasAfter) = Len(Schemas)
          /\ \E target \in 1..Len(Schemas) : OnlyAddedTo(target)]_vars

----------------------------------------------------------------------------
(* StatEnumEditor: an enum holds its own options or the id of another enum. *)

\* stat.type === "enum" && Array.isArray(stat.options) &&
\* stat.options.length > 0 && stat.id !== value.id
availableEnumStats(allStats, value) ==
    {k \in 1..Len(allStats) :
        /\ allStats[k].type = "enum"
        /\ allStats[k].options.isArray
        /\ allStats[k].options.items # <<>>
        /\ allStats[k].id # value.id}

\* the StatEnumEditor of the stat at index is mounted
EnumEditorAt(index) == StatEditorAt(index) /\ Stats[index + 1].type = "enum"

\* const isNumberCompat = typeof value.options === "number"
isNumberCompat(value) == value.options.isNumber

\* const opts = Array.isArray(value.options) ? value.options : []
optsOf(value) == IF value.options.isArray THEN value.options.items ELSE <<>>

\* the Switch checked={!isNumberCompat}: patch({ options: ch ? [] : 0 }) with
\* ch the opposite of what it shows
EnumOptionsToggle ==
    /\ Editing
    /\ \E index \in 0..(Len(Stats) - 1) :
          /\ EnumEditorAt(index)
          /\ LET ch == isNumberCompat(Stats[index + 1])
             IN system' = updateStat(index,
                   [Stats[index + 1] EXCEPT
                       !.options = IF ch THEN InlineOptions(<<>>)
                                   ELSE ReferenceOptions(0)])
    /\ Rerendered
    /\ Performed("enumOptionsToggle")
    /\ UNCHANGED <<transferVars, toast, newFieldKey>>

\* the Select of the enum to reference, rendered while isNumberCompat:
\* patch({ options: numVal }) for an item of availableEnumStats with
\* numVal > 0
EnumReferenceSelect ==
    /\ Editing
    /\ \E index \in 0..(Len(Stats) - 1) :
          /\ EnumEditorAt(index)
          /\ isNumberCompat(Stats[index + 1])
          /\ \E k \in availableEnumStats(Stats, Stats[index + 1]) :
                /\ Stats[k].id > 0
                /\ Stats[k].id # Stats[index + 1].options.ref
                /\ system' = updateStat(index,
                      [Stats[index + 1] EXCEPT !.options = ReferenceOptions(Stats[k].id)])
    /\ Rerendered
    /\ Performed("enumReferenceSelect")
    /\ UNCHANGED <<transferVars, toast, newFieldKey>>

\* options an enum holds when the button of addOption is disabled
OptionsAllowed == 25

\* (opts.at(-1)?.value ?? 0) + 1
nextOptionValue(opts) == (IF opts = <<>> THEN 0 ELSE opts[Len(opts)].value) + 1

\* StatEnumEditor.addOption, and the option expanded
EnumAddOption ==
    /\ Editing
    /\ \E index \in 0..(Len(Stats) - 1) :
          LET opts == optsOf(Stats[index + 1])
          IN /\ EnumEditorAt(index)
             /\ ~isNumberCompat(Stats[index + 1])
             /\ ~(Len(opts) >= OptionsAllowed)
             /\ system' = updateStat(index,
                   [Stats[index + 1] EXCEPT
                       !.options = InlineOptions(
                           Append(opts, Option(nextOptionValue(opts), "")))])
             /\ Render(selectedTab, opened, showLimits,
                       [expandedOptions EXCEPT
                           ![index + 1] = <<@[1] \cup {Len(opts)}>>],
                       diceEditor, isOpen)
    /\ Performed("enumAddOption")
    /\ UNCHANGED <<transferVars, toast, newFieldKey>>

\* the expanded indices after the option i was removed
expandedWithout(expanded, i) == {IF j > i THEN j - 1 ELSE j : j \in expanded \ {i}}

\* StatEnumEditor.removeOption(i)
EnumRemoveOption ==
    /\ Editing
    /\ \E index \in 0..(Len(Stats) - 1) :
          LET opts == optsOf(Stats[index + 1])
          IN /\ EnumEditorAt(index)
             /\ ~isNumberCompat(Stats[index + 1])
             /\ \E i \in 0..(Len(opts) - 1) :
                   /\ system' = updateStat(index,
                         [Stats[index + 1] EXCEPT
                             !.options = InlineOptions(spliceOut(opts, i))])
                   /\ Render(selectedTab, opened, showLimits,
                             [expandedOptions EXCEPT
                                 ![index + 1] = <<expandedWithout(@[1], i)>>],
                             diceEditor, isOpen)
    /\ Performed("enumRemoveOption")
    /\ UNCHANGED <<transferVars, toast, newFieldKey>>

\* StatEnumEditor.toggleExpanded(index) from the header of an option
ToggleExpanded ==
    /\ \E index \in 0..(Len(Stats) - 1) :
          /\ EnumEditorAt(index)
          /\ ~isNumberCompat(Stats[index + 1])
          /\ \E i \in 0..(Len(optsOf(Stats[index + 1])) - 1) :
                /\ UNCHANGED system
                /\ Render(selectedTab, opened, showLimits,
                          [expandedOptions EXCEPT
                              ![index + 1] = <<IF i \in @[1] THEN @[1] \ {i}
                                               ELSE @[1] \cup {i}>>],
                          diceEditor, isOpen)
    /\ Handled("toggleExpanded")
    /\ UNCHANGED <<transferVars, toast, edits, newFieldKey>>

\* the OptionEditor of the option i of the enum at index is mounted
OptionEditorAt(index, i) ==
    /\ EnumEditorAt(index)
    /\ ~isNumberCompat(Stats[index + 1])
    /\ i < Len(optsOf(Stats[index + 1]))
    /\ i \in expandedOptions[index + 1][1]

\* setOption(i, v): patch({ options: opts.map((o, idx) => (idx === i ? v : o)) })
setOption(index, i, v) ==
    updateStat(index,
               [Stats[index + 1] EXCEPT
                   !.options = InlineOptions([optsOf(Stats[index + 1]) EXCEPT ![i + 1] = v])])

\* numbers typed into the value field of an option
EditedOptionValues == {7}

\* OptionEditor: patch({ value: Number(e.target.value) })
OptionValueInput ==
    /\ Editing
    /\ \E index \in 0..(Len(Stats) - 1), n \in EditedOptionValues :
          \E i \in 0..(Len(optsOf(Stats[index + 1])) - 1) :
             /\ OptionEditorAt(index, i)
             /\ n # optsOf(Stats[index + 1])[i + 1].value
             /\ system' = setOption(index, i,
                                    [optsOf(Stats[index + 1])[i + 1] EXCEPT !.value = n])
    /\ Rerendered
    /\ Performed("optionValueInput")
    /\ UNCHANGED <<transferVars, toast, newFieldKey>>

\* names typed into the name field of an option
EditedOptionNames == {"B"}

\* OptionEditor: patch({ name: v })
OptionNameInput ==
    /\ Editing
    /\ \E index \in 0..(Len(Stats) - 1), name \in EditedOptionNames :
          \E i \in 0..(Len(optsOf(Stats[index + 1])) - 1) :
             /\ OptionEditorAt(index, i)
             /\ name # optsOf(Stats[index + 1])[i + 1].name
             /\ system' = setOption(index, i,
                                    [optsOf(Stats[index + 1])[i + 1] EXCEPT !.name = name])
    /\ Rerendered
    /\ Performed("optionNameInput")
    /\ UNCHANGED <<transferVars, toast, newFieldKey>>

\* OptionEditor: patch({ emoji: v }) from CustomEmojiPicker.handleEmojiClick
OptionEmojiClick ==
    /\ Editing
    /\ \E index \in 0..(Len(Stats) - 1), emoji \in EditedEmojis :
          \E i \in 0..(Len(optsOf(Stats[index + 1])) - 1) :
             /\ OptionEditorAt(index, i)
             /\ system' = setOption(index, i,
                                    [optsOf(Stats[index + 1])[i + 1] EXCEPT !.emoji = emoji])
    /\ toast' = EmojiToast
    /\ Rerendered
    /\ Performed("optionEmojiClick")
    /\ UNCHANGED <<transferVars, newFieldKey>>

\* the stats of the schema the editor opens with, and stats it reaches with
\* the enum editor: an enum with an option and an enum that references it
EnumSchemas ==
    { DefaultStats,
      << EnumStat(1, "Classe", InlineOptions(<<Option(7, "A")>>)),
         EnumStat(2, "Novo Stat", ReferenceOptions(1)) >>,
      << EnumStat(1, "Classe", ReferenceOptions(2)),
         EnumStat(2, "Novo Stat", InlineOptions(<<Option(7, "A")>>)) >> }

\* the stats tab with one card open
InitEnums ==
    /\ pc = "open"
    /\ \E list \in EnumSchemas : system = EditorSystem(list, DefaultSections)
    /\ \E index \in 0..(Len(Stats) - 1) : EditorOn("stats", OneOpen(Stats, index))
    /\ NoParts
    /\ NoPreview
    /\ formulaArg = <<>>
    /\ statIdArg = 0
    /\ dependencies = <<>>
    /\ cyclic = FALSE
    /\ errors = <<>>
    /\ threw = FALSE

NextEnums ==
    \/ AddStat
    \/ RemoveStat
    \/ DuplicateStat
    \/ MoveStat
    \/ EnumOptionsToggle
    \/ EnumReferenceSelect
    \/ EnumAddOption
    \/ EnumRemoveOption
    \/ ToggleExpanded
    \/ OptionValueInput
    \/ OptionNameInput
    \/ OptionEmojiClick

SpecEnums == InitEnums /\ [][NextEnums]_vars

\* C30: in every state reached by adding, duplicating, removing and moving
\* stats, by switching an enum between its own options and a reference, and
\* by selecting the enum to reference, no enum's options field is that
\* enum's own id.
C30_NoEnumReferencesItself ==
    \A k \in 1..Len(Stats) :
       Stats[k].type = "enum" /\ Stats[k].options.isNumber =>
          Stats[k].options.ref # Stats[k].id

====
